---- MODULE Spec2Model ----
(***************************************************************************)
(* A model of image-to-ascii's rendering core: the font model (font.rs),   *)
(* chunk partitioning and the threaded dispatch (convert.rs) and the       *)
(* TwoPass conversion algorithm (convert.rs).                              *)
(*                                                                         *)
(* f32 values are modelled by exact integers and rationals: a bitmap pixel *)
(* is 0 or 1 (what Font::from_bdf_stream produces), a chunk pixel is a     *)
(* small integer, a glyph direction is the pair (x / den, y / den).        *)
(* A panic is an outcome of its own: a record with status "panic".         *)
(***************************************************************************)
EXTENDS Integers, Naturals, Sequences, FiniteSets, TLC

----------------------------------------------------------------------------
(* Bounds of the model *)

\* most glyphs handed to Font::new
MaxGlyphs == 2

\* largest width and height of a partitioned buffer
MaxDim == 5

\* largest chunk width and chunk height of a partition
MaxChunkDim == 3

\* most chunks handed to chunks_to_chars
MaxChunks == 2

\* largest n_threads of a chunks_to_chars call
MaxThreads == 3

\* largest width and height of a converted image
MaxImageDim == 2

\* largest out_width of a conversion
MaxOutWidth == 2

\* most cells (out_width * out_height) of a conversion
MaxCells == 2

\* longest vector of which every content over VecValues is drawn
MaxShortLen == 2

\* longest vector handed to a metric
MaxVecLen == 16

\* most glyphs of a font handed to direction_and_intensity_convert
MaxSelectGlyphs == 3

----------------------------------------------------------------------------
(* Generic helpers: iterator sums, min, max *)

RECURSIVE SumSeq(_)
SumSeq(s) == IF s = <<>> THEN 0 ELSE Head(s) + SumSeq(Tail(s))

SeqMin(s) == CHOOSE m \in {s[i] : i \in DOMAIN s} : \A i \in DOMAIN s : m <= s[i]

SeqMax(s) == CHOOSE m \in {s[i] : i \in DOMAIN s} : \A i \in DOMAIN s : m >= s[i]

----------------------------------------------------------------------------
(* font.rs: Character *)

Character(value, bitmap, width, height) ==
    [value |-> value, bitmap |-> bitmap, width |-> width, height |-> height]

----------------------------------------------------------------------------
(* font.rs: masked_discrete_convolution_2d, sum_2d, direction *)

\* the kernel response at (r, c): taps outside the data are omitted
kernel_response(data, kernel, r, c) ==
    LET kernel_row_offset == (Len(kernel) - 1) \div 2
        kernel_col_offset == (Len(kernel[1]) - 1) \div 2
        data_height == Len(data)
        data_width == Len(data[1])
        kernel_width == Len(kernel[1])
        tap(k) ==
            LET kr == ((k - 1) \div kernel_width) + 1
                kc == ((k - 1) % kernel_width) + 1
                dr == r + kr - 1 - kernel_row_offset
                dc == c + kc - 1 - kernel_col_offset
            IN  IF dr >= 1 /\ dr <= data_height /\ dc >= 1 /\ dc <= data_width
                THEN kernel[kr][kc] * data[dr][dc]
                ELSE 0
    IN  SumSeq([k \in 1..(Len(kernel) * kernel_width) |-> tap(k)])

\* an output row without the mask: a response is pushed at every position
RECURSIVE unmasked_row(_, _, _, _)
unmasked_row(data, kernel, r, c) ==
    IF c > Len(data[1]) THEN <<>>
    ELSE <<kernel_response(data, kernel, r, c)>> \o unmasked_row(data, kernel, r, c + 1)

\* one output row: a response is pushed only where the input pixel is non-zero
\* (the `continue` skips the push, so the row holds the masked positions only)
RECURSIVE masked_row(_, _, _, _)
masked_row(data, kernel, r, c) ==
    IF c > Len(data[1]) THEN <<>>
    ELSE IF data[r][c] = 0 THEN masked_row(data, kernel, r, c + 1)
    ELSE <<kernel_response(data, kernel, r, c)>> \o masked_row(data, kernel, r, c + 1)

masked_discrete_convolution_2d(data, kernel) ==
    [r \in 1..Len(data) |-> masked_row(data, kernel, r, 1)]

sum_2d(data) == SumSeq([r \in DOMAIN data |-> SumSeq(data[r])])

total_kernel == << <<0, 0, 0>>, <<0, 1, 1>>, <<1, 1, 1>> >>

x_kernel == << <<0, 0, 0>>, <<0, 0, 1>>, <<-1, 0, 1>> >>

y_kernel == << <<0, 0, 0>>, <<0, 0, 0>>, <<1, 1, 1>> >>

\* a direction without the zero-total guard: the division is always performed
direction_unguarded(data) ==
    [x |-> sum_2d(masked_discrete_convolution_2d(data, x_kernel)),
     y |-> sum_2d(masked_discrete_convolution_2d(data, y_kernel)),
     den |-> sum_2d(masked_discrete_convolution_2d(data, total_kernel)),
     divided |-> TRUE]

\* the pair (x / den, y / den); divided tells whether the divisions were made
direction(data) ==
    LET total == sum_2d(masked_discrete_convolution_2d(data, total_kernel))
    IN  IF total = 0
        THEN [x |-> 0, y |-> 0, den |-> 1, divided |-> FALSE]
        ELSE [x |-> sum_2d(masked_discrete_convolution_2d(data, x_kernel)),
              y |-> sum_2d(masked_discrete_convolution_2d(data, y_kernel)),
              den |-> total,
              divided |-> TRUE]

\* the bitmap as a grid of rows (font.rs builds it row by row)
bitmap_grid(bitmap, width, height) ==
    [r \in 1..height |-> [c \in 1..width |-> bitmap[(r - 1) * width + c]]]

----------------------------------------------------------------------------
(* font.rs: Font::new *)

Panic(message, range) == [status |-> "panic", message |-> message, range |-> range]

\* lines 44-49: keep the glyphs whose value is in the alphabet, in glyph order
filter_alphabet(chars, alphabet) ==
    LET char_set == {alphabet[i] : i \in DOMAIN alphabet}
    IN  SelectSeq(chars, LAMBDA c : c.value \in char_set)

\* c.bitmap.iter().sum::<f32>() (as i32 where the code truncates: bitmaps are 0/1)
bitmap_sum(c) == SumSeq(c.bitmap)

\* an unstable insertion: the new pair goes before the pairs of equal key
insert_before_equal(sorted, e) ==
    LET before == SelectSeq(sorted, LAMBDA p : p[1] < e[1])
        after == SelectSeq(sorted, LAMBDA p : p[1] >= e[1])
    IN  before \o <<e>> \o after

\* sort_by_key is stable: a pair goes after the pairs of smaller or equal key
insert_by_key(sorted, e) ==
    LET before == SelectSeq(sorted, LAMBDA p : p[1] <= e[1])
        after == SelectSeq(sorted, LAMBDA p : p[1] > e[1])
    IN  before \o <<e>> \o after

RECURSIVE sort_by_key(_)
sort_by_key(pairs) ==
    IF pairs = <<>> THEN <<>>
    ELSE insert_by_key(sort_by_key(SubSeq(pairs, 1, Len(pairs) - 1)), pairs[Len(pairs)])

\* lines 93-95: while i > char_intensities[index].0 { index += 1 }
\* (an index past the end is the indexing panic)
RECURSIVE advance_index(_, _, _)
advance_index(char_intensities, i, index) ==
    IF index > Len(char_intensities) THEN index
    ELSE IF i > char_intensities[index][1]
         THEN advance_index(char_intensities, i, index + 1)
         ELSE index

\* lines 91-97: for i in first..=last, push the glyph the index stops at
RECURSIVE fill_levels(_, _, _, _)
fill_levels(char_intensities, i, last, index) ==
    IF i > last THEN [ok |-> TRUE, table |-> <<>>]
    ELSE LET at == advance_index(char_intensities, i, index)
         IN  IF at > Len(char_intensities) THEN [ok |-> FALSE, table |-> <<>>]
             ELSE LET rest == fill_levels(char_intensities, i + 1, last, at)
                  IN  [ok |-> rest.ok,
                       table |-> <<char_intensities[at][2]>> \o rest.table]

\* the table with its last level left out (0..max instead of 0..=max)
intensity_chars_exclusive(char_intensities, max_possible_intensity) ==
    fill_levels(char_intensities, 0, max_possible_intensity - 1, 1)

intensity_chars_table(char_intensities, max_possible_intensity) ==
    fill_levels(char_intensities, 0, max_possible_intensity, 1)

\* lines 78-81: intensity * max_possible_intensity / max_intensity, in i32
normalized_intensity(intensity, max_possible_intensity, max_intensity) ==
    (intensity * max_possible_intensity) \div max_intensity

\* lines 105-127: the counts of adjacent pairs whose later pixel is brighter
glyph_grad(c, width, height) ==
    LET xs == {p \in (0..(height - 1)) \X (0..(width - 2)) :
                 c.bitmap[p[1] * width + 1 + p[2] + 1] > c.bitmap[p[1] * width + p[2] + 1]}
        ys == {p \in (0..(height - 2)) \X (0..(width - 1)) :
                 c.bitmap[(p[1] + 1) * width + p[2] + 1] > c.bitmap[p[1] * width + p[2] + 1]}
    IN  <<Cardinality(xs), Cardinality(ys)>>

\* line 148: a later glyph of the same value replaces an earlier one
char_map_of(chars) ==
    [v \in {chars[i].value : i \in DOMAIN chars} |->
        chars[CHOOSE i \in DOMAIN chars :
                /\ chars[i].value = v
                /\ \A j \in DOMAIN chars : chars[j].value = v => j <= i]]

\* lines 69-160, once the glyphs are known to share one size
build_font(chars, width, height) ==
    LET intensity_indexes == [i \in DOMAIN chars |-> bitmap_sum(chars[i])]
        max_intensity == SeqMax(intensity_indexes)
        max_possible_intensity == width * height
    IN  IF max_intensity = 0 THEN Panic("attempt to divide by zero", <<>>)
        ELSE
        LET intensities ==
                [i \in DOMAIN chars |->
                    normalized_intensity(intensity_indexes[i],
                                         max_possible_intensity, max_intensity)]
            char_intensities ==
                sort_by_key([i \in DOMAIN chars |-> <<intensities[i], chars[i]>>])
            filled == intensity_chars_table(char_intensities, max_possible_intensity)
        IN  IF ~filled.ok THEN Panic("index out of bounds", <<>>)
            ELSE [status |-> "ok",
                  width |-> width,
                  height |-> height,
                  chars |-> chars,
                  intensities |-> [i \in DOMAIN chars |-> bitmap_sum(chars[i])],
                  grads |-> [i \in DOMAIN chars |-> glyph_grad(chars[i], width, height)],
                  directions |->
                      [i \in DOMAIN chars |->
                          direction(bitmap_grid(chars[i].bitmap, width, height))],
                  char_map |-> char_map_of(chars),
                  intensity_chars |-> filled.table]

Font_new(all_chars, alphabet) ==
    LET chars == filter_alphabet(all_chars, alphabet)
    IN  IF chars = <<>>
        THEN Panic("called Option::unwrap() on a None value", <<>>)
        ELSE
        LET min_height == SeqMin([i \in DOMAIN chars |-> chars[i].height])
            max_height == SeqMax([i \in DOMAIN chars |-> chars[i].height])
            min_width == SeqMin([i \in DOMAIN chars |-> chars[i].width])
            max_width == SeqMax([i \in DOMAIN chars |-> chars[i].width])
        IN  IF max_height # min_height
            THEN Panic("All Characters must have the same height",
                       <<min_height, max_height>>)
            ELSE IF max_width # min_width
            THEN Panic("All Characters must have the same width",
                       <<min_width, max_width>>)
            ELSE build_font(chars, min_width, min_height)

----------------------------------------------------------------------------
(* convert.rs: pixels_to_chunks *)

\* a count rounded up: a partial chunk would be taken at the right and bottom edges
chunk_count_ceil(length, chunk_length) == (length + chunk_length - 1) \div chunk_length

\* line 187 (and 186): the whole chunks that fit, the remainder is truncated
chunk_count(length, chunk_length) == length \div chunk_length

\* line 207 done wrongly: the offset skips the chunked columns only, not the whole row
next_y_offset_chunked(y_offset, width, chunk_width, horizontal_chunks) ==
    y_offset + chunk_width * horizontal_chunks

\* line 207: y_offset += width
next_y_offset(y_offset, width, chunk_width, horizontal_chunks) == y_offset + width

\* lines 200-206: one pixel row of one row of chunks; a slice past the end of
\* pixels is the slicing panic (ok = FALSE)
RECURSIVE extend_chunk_row(_, _, _, _, _, _, _)
extend_chunk_row(pixels, chunk_row, x, horizontal_chunks, y_offset, x_offset, chunk_width) ==
    IF x > horizontal_chunks THEN [ok |-> TRUE, chunk_row |-> chunk_row]
    ELSE LET start == y_offset + x_offset
             end == start + chunk_width
         IN  IF end > Len(pixels) THEN [ok |-> FALSE, chunk_row |-> chunk_row]
             ELSE extend_chunk_row(
                      pixels,
                      [chunk_row EXCEPT ![x] = @ \o SubSeq(pixels, start + 1, end)],
                      x + 1, horizontal_chunks, y_offset, x_offset + chunk_width,
                      chunk_width)

\* lines 199-209: the chunk_height pixel rows of one row of chunks
RECURSIVE fill_chunk_row(_, _, _, _, _, _, _, _)
fill_chunk_row(pixels, chunk_row, rows_left, horizontal_chunks, y_offset, width, chunk_width, chunk_height) ==
    IF rows_left = 0 THEN [ok |-> TRUE, chunk_row |-> chunk_row, y_offset |-> y_offset]
    ELSE LET extended == extend_chunk_row(pixels, chunk_row, 1, horizontal_chunks,
                                          y_offset, 0, chunk_width)
         IN  IF ~extended.ok
             THEN [ok |-> FALSE, chunk_row |-> chunk_row, y_offset |-> y_offset]
             ELSE fill_chunk_row(pixels, extended.chunk_row, rows_left - 1,
                                 horizontal_chunks,
                                 next_y_offset(y_offset, width, chunk_width,
                                               horizontal_chunks),
                                 width, chunk_width, chunk_height)

\* lines 194-212: the rows of chunks, top to bottom
RECURSIVE collect_chunk_rows(_, _, _, _, _, _, _)
collect_chunk_rows(pixels, chunk_rows_left, horizontal_chunks, y_offset, width, chunk_width, chunk_height) ==
    IF chunk_rows_left = 0 THEN [status |-> "ok", chunks |-> <<>>]
    ELSE LET filled == fill_chunk_row(pixels, [x \in 1..horizontal_chunks |-> <<>>],
                                      chunk_height, horizontal_chunks, y_offset, width,
                                      chunk_width, chunk_height)
         IN  IF ~filled.ok THEN [status |-> "panic", chunks |-> <<>>]
             ELSE LET rest == collect_chunk_rows(pixels, chunk_rows_left - 1,
                                                 horizontal_chunks, filled.y_offset,
                                                 width, chunk_width, chunk_height)
                  IN  IF rest.status = "panic" THEN rest
                      ELSE [status |-> "ok", chunks |-> filled.chunk_row \o rest.chunks]

pixels_to_chunks(pixels, width, height, chunk_width, chunk_height) ==
    LET vertical_chunks == chunk_count(height, chunk_height)
        horizontal_chunks == chunk_count(width, chunk_width)
    IN  collect_chunk_rows(pixels, vertical_chunks, horizontal_chunks, 0, width,
                           chunk_width, chunk_height)

----------------------------------------------------------------------------
(* metrics.rs and convert.rs: the converters, with noise_scale = 0 *)

\* what a converter call ends in when it panics instead of returning a char
ConvertPanic == "<panic>"

Min2(a, b) == IF a <= b THEN a ELSE b

Max2(a, b) == IF a >= b THEN a ELSE b

\* a dot product that squares the first vector instead of pairing the two
dot_score_squares(xs, ys) == SumSeq([i \in 1..Min2(Len(xs), Len(ys)) |-> xs[i] * xs[i]])

\* metrics.rs: xs.iter().zip(ys).map(|(x, &y)| x * y).sum()
dot_score(xs, ys) == SumSeq([i \in 1..Min2(Len(xs), Len(ys)) |-> xs[i] * ys[i]])

\* a quotient of two f32 sums, kept as the pair it is the quotient of (an f32
\* division by zero gives an infinity or a NaN and does not panic)
Quotient(num, den) == [num |-> num, den |-> den]

\* a jaccard score with the two sums exchanged
jaccard_score_inverted(xs, ys) ==
    Quotient(SumSeq([i \in 1..Min2(Len(xs), Len(ys)) |-> Max2(xs[i], ys[i])]),
             SumSeq([i \in 1..Min2(Len(xs), Len(ys)) |-> Min2(xs[i], ys[i])]))

\* a jaccard score guarded against a zero union: 0 is substituted
jaccard_score_guarded(xs, ys) ==
    LET union == SumSeq([i \in 1..Min2(Len(xs), Len(ys)) |-> Max2(xs[i], ys[i])])
    IN  IF union = 0 THEN Quotient(0, 1)
        ELSE Quotient(SumSeq([i \in 1..Min2(Len(xs), Len(ys)) |-> Min2(xs[i], ys[i])]), union)

\* metrics.rs lines 3-7: intersection / union
jaccard_score(xs, ys) ==
    Quotient(SumSeq([i \in 1..Min2(Len(xs), Len(ys)) |-> Min2(xs[i], ys[i])]),
             SumSeq([i \in 1..Min2(Len(xs), Len(ys)) |-> Max2(xs[i], ys[i])]))

\* what an f32 division gives: it never fails; 0 / 0 is NaN and x / 0 is infinite
f32_div_class(q) ==
    IF q.den # 0 THEN "finite" ELSE IF q.num = 0 THEN "NaN" ELSE "infinite"

\* metrics.rs lines 23-28: -sum(if y > 0. { 0. } else { x })
movement_toward_clear(xs, ys) ==
    -SumSeq([i \in 1..Min2(Len(xs), Len(ys)) |-> IF ys[i] > 0 THEN 0 ELSE xs[i]])

\* metrics.rs: a Metric is a pointer to a score function, here its name
Metric(score_fn, xs, ys) == CASE score_fn = "dot_score" -> dot_score(xs, ys)

\* lines 31-39: the HashMap from each glyph value to its score (a later glyph of
\* the same value replaces an earlier one)
score_map(score_fn, font_, chunk) ==
    [v \in DOMAIN font_.char_map |-> Metric(score_fn, chunk, font_.char_map[v].bitmap)]

\* lines 40-43: keys().max_by(..) keeps the last greatest key in the map's
\* iteration order, and a HashMap iterates in an order that its per-instance
\* random hasher decides: every key of greatest score is a possible result
score_convert(score_fn, font_, chunk) ==
    LET scores == score_map(score_fn, font_, chunk)
    IN  IF DOMAIN scores = {} THEN {ConvertPanic}
        ELSE {v \in DOMAIN scores : \A u \in DOMAIN scores : scores[u] <= scores[v]}

dot_convert(font_, chunk) == score_convert("dot_score", font_, chunk)

\* a fast_convert that answers the darkest level with a blank, whatever the font
fast_convert_blank(font_, chunk) ==
    LET intensity == SumSeq(chunk)
        index == IF intensity < 0 THEN 0 ELSE intensity
    IN  IF index + 1 > Len(font_.intensity_chars) THEN {ConvertPanic}
        ELSE IF index = 0 THEN {" "}
        ELSE {font_.intensity_chars[index + 1].value}

\* lines 71-76: the index is the chunk's sum cast to usize (a negative sum
\* saturates to 0); an index past the table is the indexing panic
fast_convert(font_, chunk) ==
    LET intensity == SumSeq(chunk)
        index == IF intensity < 0 THEN 0 ELSE intensity
    IN  IF index + 1 > Len(font_.intensity_chars) THEN {ConvertPanic}
        ELSE {font_.intensity_chars[index + 1].value}

\* lines 78-94
chunk_direction(chunk, width, height) ==
    LET x_grad == SumSeq([k \in 1..(height * (width - 1)) |->
                    LET i == (k - 1) \div (width - 1)
                        j == (k - 1) % (width - 1)
                    IN  chunk[i * width + 1 + j + 1] - chunk[i * width + j + 1]])
        y_grad == SumSeq([k \in 1..((height - 1) * width) |->
                    LET i == (k - 1) \div width
                        j == (k - 1) % width
                    IN  chunk[(i + 1) * width + j + 1] - chunk[i * width + j + 1]])
    IN  <<-y_grad, x_grad>>

\* the squared distance from the chunk direction to a glyph direction (x/den, y/den),
\* as the fraction <<numerator, denominator>>
direction_distance(dir, glyph_direction) ==
    <<(dir[1] * glyph_direction.den - glyph_direction.x)
          * (dir[1] * glyph_direction.den - glyph_direction.x)
      + (dir[2] * glyph_direction.den - glyph_direction.y)
          * (dir[2] * glyph_direction.den - glyph_direction.y),
      glyph_direction.den * glyph_direction.den>>

\* the score -sqrt(a) is below the score -sqrt(b): a > b, as fractions
ScoreBelow(a, b) == a[1] * b[2] > b[1] * a[2]

\* max_by keeping the first of several greatest elements
first_max_index(scores) ==
    CHOOSE k \in DOMAIN scores :
        /\ \A j \in DOMAIN scores : ~ScoreBelow(scores[k], scores[j])
        /\ \A j \in 1..(k - 1) : ScoreBelow(scores[j], scores[k])

\* Iterator::max_by: the last of several greatest elements is returned
last_max_index(scores) ==
    CHOOSE k \in DOMAIN scores :
        /\ \A j \in DOMAIN scores : ~ScoreBelow(scores[k], scores[j])
        /\ \A j \in (k + 1)..Len(scores) : ScoreBelow(scores[j], scores[k])

\* lines 127-152
direction_convert(font_, chunk) ==
    LET dir == chunk_direction(chunk, font_.width, font_.height)
        scores == [k \in DOMAIN font_.chars |-> direction_distance(dir, font_.directions[k])]
    IN  IF font_.chars = <<>> THEN {ConvertPanic}
        ELSE {font_.chars[last_max_index(scores)].value}

\* a quarter of the glyph area in place of four times it
max_direction_quarter(font_) == (font_.width * font_.height) \div 4

\* line 102
max_direction(font_) == font_.width * font_.height * 4

AbsInt(a) == IF a < 0 THEN -a ELSE a

\* lines 110-112 for glyph k: grad = -distance and score = (max_direction - grad)
\* / (1 + (intensity - c.intensity)^2), that is (max_direction + distance) /
\* (1 + di^2). With distance = sqrt(r) / den the score is (m + sqrt(r)) / p for
\* the integers m = max_direction * den, r, p = (1 + di^2) * den kept here
intensity_score(font_, chunk, k) ==
    LET dir == chunk_direction(chunk, font_.width, font_.height)
        den == AbsInt(font_.directions[k].den)
        di == SumSeq(chunk) - font_.intensities[k]
    IN  [m |-> max_direction(font_) * den,
         r |-> direction_distance(dir, font_.directions[k])[1],
         p |-> (1 + di * di) * den]

\* X + sqrt(A) < sqrt(B), for integers X, A >= 0, B >= 0
sqrt_sum_below(X, A, B) ==
    IF X < 0 /\ X * X > A THEN TRUE
    ELSE LET R == B - X * X - A
         IN  IF X >= 0 THEN R > 0 /\ 4 * X * X * A < R * R
             ELSE R >= 0 \/ 4 * X * X * A > R * R

\* (a.m + sqrt(a.r)) / a.p < (b.m + sqrt(b.r)) / b.p
intensity_score_below(a, b) ==
    sqrt_sum_below(b.p * a.m - a.p * b.m, b.p * b.p * a.r, a.p * a.p * b.r)

\* lines 118-124: max_by returns the last of several greatest elements
last_max_score_index(scores) ==
    CHOOSE k \in DOMAIN scores :
        /\ \A j \in DOMAIN scores : ~intensity_score_below(scores[k], scores[j])
        /\ \A j \in (k + 1)..Len(scores) : intensity_score_below(scores[j], scores[k])

\* lines 96-125
direction_and_intensity_convert(font_, chunk) ==
    LET scores == [k \in DOMAIN font_.chars |-> intensity_score(font_, chunk, k)]
    IN  IF font_.chars = <<>> THEN {ConvertPanic}
        ELSE {font_.chars[last_max_score_index(scores)].value}

\* lines 154-167: get_converter
Converters == {"dot", "fast", "direction"}

convert_chunk(converter, font_, chunk) ==
    CASE converter = "dot" -> dot_convert(font_, chunk)
      [] converter = "fast" -> fast_convert(font_, chunk)
      [] converter = "direction" -> direction_convert(font_, chunk)
      [] converter = "direction-and-intensity" -> direction_and_intensity_convert(font_, chunk)

\* chunks.iter().map(|chunk| convert(..)).collect(): every sequence of chars the
\* converter can give for the chunks, or a panic when it can panic on one of them
map_convert(converter, font_, chunk_list) ==
    LET returned(k) == convert_chunk(converter, font_, chunk_list[k]) \ {ConvertPanic}
        values == UNION {returned(k) : k \in DOMAIN chunk_list}
    IN  {[status |-> "ok", chars |-> cs] :
            cs \in {f \in [DOMAIN chunk_list -> values] :
                       \A k \in DOMAIN chunk_list : f[k] \in returned(k)}}
        \cup
        {[status |-> "panic"] : k \in {j \in DOMAIN chunk_list :
            ConvertPanic \in convert_chunk(converter, font_, chunk_list[j])}}

----------------------------------------------------------------------------
(* metrics_simd.rs: the vectorized dot_score and jaccard_score *)

\* the f32 lanes of a __m256
Lanes == 8

\* what a lane read past the end of the slice may hold
Garbage == {0, 1}

\* _mm256_loadu_ps(ptr.add(i)): the 8 elements from index i (0-based) on; those
\* past the end of the slice are not the slice's and hold g
loadu_ps(v, i, g) == [k \in 1..Lanes |-> IF i + k <= Len(v) THEN v[i + k] ELSE g]

\* one past the last index the 8-lane loads and the scalar tail read
read_end(len) == Max2(Lanes, len)

\* _mm256_reduce_sum, lines 12-19
reduce_sum(v) == SumSeq(v)

\* lines 80-85: while i + 8 <= xs.len() { sums = fmadd(xs[i..], ys[i..], sums) }
RECURSIVE dot_lanes(_, _, _, _)
dot_lanes(xs, ys, i, sums) ==
    IF i + Lanes <= Len(xs)
    THEN dot_lanes(xs, ys, i + Lanes,
                   [k \in 1..Lanes |-> loadu_ps(xs, i, 0)[k] * loadu_ps(ys, i, 0)[k] + sums[k]])
    ELSE [i |-> i, sums |-> sums]

\* lines 92-95: while i < xs.len() { total += xs[i] * ys[i] }
RECURSIVE dot_tail(_, _, _, _)
dot_tail(xs, ys, i, total) ==
    IF i < Len(xs) THEN dot_tail(xs, ys, i + 1, total + xs[i + 1] * ys[i + 1])
    ELSE total

\* lines 66-98 for given contents gx, gy of the lanes past the end
simd_dot_value(xs, ys, gx, gy) ==
    LET peeled == [k \in 1..Lanes |-> loadu_ps(xs, 0, gx)[k] * loadu_ps(ys, 0, gy)[k]]
        looped == dot_lanes(xs, ys, Lanes, peeled)
    IN  dot_tail(xs, ys, looped.i, reduce_sum(looped.sums))

\* lines 66-98: the unsafe load of the first 8 lanes is made whatever the
\* length; on slices shorter than 8 it reads past their end, which may fault or
\* see any contents
simd_dot_score(xs, ys) ==
    IF Len(xs) # Len(ys) THEN {[status |-> "panic"]}
    ELSE IF Len(xs) >= Lanes
    THEN {[status |-> "ok", value |-> simd_dot_value(xs, ys, 0, 0),
           read_end |-> read_end(Len(xs))]}
    ELSE {[status |-> "ok", value |-> simd_dot_value(xs, ys, gx, gy),
           read_end |-> read_end(Len(xs))] : gx \in Garbage, gy \in Garbage}
         \cup {[status |-> "fault"]}

\* lines 38-49
RECURSIVE jaccard_lanes(_, _, _, _, _)
jaccard_lanes(xs, ys, i, min_sum, max_sum) ==
    IF i + Lanes <= Len(xs)
    THEN jaccard_lanes(xs, ys, i + Lanes,
            [k \in 1..Lanes |-> Min2(loadu_ps(xs, i, 0)[k], loadu_ps(ys, i, 0)[k]) + min_sum[k]],
            [k \in 1..Lanes |-> Max2(loadu_ps(xs, i, 0)[k], loadu_ps(ys, i, 0)[k]) + max_sum[k]])
    ELSE [i |-> i, min_sum |-> min_sum, max_sum |-> max_sum]

\* lines 57-61
RECURSIVE jaccard_tail(_, _, _, _, _)
jaccard_tail(xs, ys, i, intersection_sum, union_sum) ==
    IF i < Len(xs)
    THEN jaccard_tail(xs, ys, i + 1, intersection_sum + Min2(xs[i + 1], ys[i + 1]),
                      union_sum + Max2(xs[i + 1], ys[i + 1]))
    ELSE Quotient(intersection_sum, union_sum)

\* lines 21-64 for given contents gx, gy of the lanes past the end
simd_jaccard_value(xs, ys, gx, gy) ==
    LET x0 == loadu_ps(xs, 0, gx)
        y0 == loadu_ps(ys, 0, gy)
        looped == jaccard_lanes(xs, ys, Lanes,
                                [k \in 1..Lanes |-> Min2(x0[k], y0[k])],
                                [k \in 1..Lanes |-> Max2(x0[k], y0[k])])
    IN  jaccard_tail(xs, ys, looped.i, reduce_sum(looped.min_sum),
                     reduce_sum(looped.max_sum))

\* lines 21-64
simd_jaccard_score(xs, ys) ==
    IF Len(xs) # Len(ys) THEN {[status |-> "panic"]}
    ELSE IF Len(xs) >= Lanes
    THEN {[status |-> "ok", value |-> simd_jaccard_value(xs, ys, 0, 0),
           read_end |-> read_end(Len(xs))]}
    ELSE {[status |-> "ok", value |-> simd_jaccard_value(xs, ys, gx, gy),
           read_end |-> read_end(Len(xs))] : gx \in Garbage, gy \in Garbage}
         \cup {[status |-> "fault"]}

----------------------------------------------------------------------------
(* convert.rs: chunks_to_chars *)

\* line 229
slice_len(n_chunks, n_threads) == (n_chunks \div n_threads) + 1

\* line 233: the slice of worker i is chunks[start..end], 0-based, end exclusive
slice_start(i, n_chunks, n_threads) == i * slice_len(n_chunks, n_threads)

slice_end(i, n_chunks, n_threads) ==
    Min2((i + 1) * slice_len(n_chunks, n_threads), n_chunks)

\* the messages in the order they were received
unsorted_messages(messages) == messages

\* line 246: char_vecs.sort(), on (slice index, chars) pairs of distinct indexes
sort_messages(messages) ==
    LET sorted == sort_by_key([k \in DOMAIN messages |-> <<messages[k].index, messages[k]>>])
    IN  [k \in DOMAIN sorted |-> sorted[k][2]]

\* lines 248-250: chars.extend(char_vec) for each message in turn
RECURSIVE concat_messages(_)
concat_messages(messages) ==
    IF messages = <<>> THEN [chars |-> <<>>, origin |-> <<>>]
    ELSE LET rest == concat_messages(Tail(messages))
         IN  [chars |-> Head(messages).chars \o rest.chars,
              origin |-> Head(messages).origin \o rest.origin]

----------------------------------------------------------------------------
(* convert.rs: img_to_char_rows *)

\* lines 18-22 and 169-176: the variant a name resolves to, or the panic
get_conversion_algorithm(algorithm) ==
    CASE algorithm = "base" -> [status |-> "ok", algorithm |-> "Base"]
      [] algorithm = "edge" -> [status |-> "ok", algorithm |-> "Edge"]
      [] algorithm = "two-pass" -> [status |-> "ok", algorithm |-> "TwoPass"]
      [] OTHER -> [status |-> "panic"]

\* lines 322-329 under Edge: pixel = a / 4 + b, for a luminance a that is a
\* multiple of 4 (brightness_offset = 0, both in units of 255)
edge_pixels(luma_pixels, edge_detected) ==
    [k \in 1..Min2(Len(luma_pixels), Len(edge_detected)) |->
        (luma_pixels[k] \div 4) + edge_detected[k]]

\* lines 288-291: round(height * (out_width / width) * (font.width / font.height)),
\* in exact arithmetic; f64::round rounds half away from zero
out_height_of(width, height, out_width, font_width, font_height) ==
    (2 * height * out_width * font_width + width * font_height)
        \div (2 * width * font_height)

\* the merge with the passes exchanged: the luminance char unless it is blank
merge_char_luma_first(luma, edge) == IF luma = " " THEN edge ELSE luma

\* line 381: if edge == ' ' { luma } else { edge }
merge_char(luma, edge) == IF edge = " " THEN luma ELSE edge

\* lines 378-382: luma_chars.iter().zip(edge_detection_chars).map(..).collect()
merge_chars(luma, edge) ==
    [k \in 1..Min2(Len(luma), Len(edge)) |-> merge_char(luma[k], edge[k])]

\* lines 386-389: the chars cut into rows of out_width; a row past the end of
\* chars is the slicing panic
split_rows(chars, out_width, out_height) ==
    IF out_height * out_width > Len(chars) THEN [status |-> "panic"]
    ELSE [status |-> "ok",
          rows |-> [r \in 1..out_height |->
                       SubSeq(chars, (r - 1) * out_width + 1, r * out_width)]]

----------------------------------------------------------------------------
(* Inputs of the font model *)

\* the value of the k-th glyph handed to Font::new
GlyphValues == <<" ", "a", "b", "c", "d", "e">>

\* the glyph sizes (width, height) drawn for each glyph
GlyphDims == {<<2, 2>>, <<1, 2>>, <<2, 1>>}

Bitmaps(width, height) == [1..(width * height) -> {0, 1}]

\* every list of at most MaxGlyphs glyphs: glyph k has value GlyphValues[k]
GlyphLists ==
    UNION {
        {gl \in [1..n -> UNION {{Character(v, b, d[1], d[2]) : b \in Bitmaps(d[1], d[2])} :
                                   v \in {GlyphValues[k] : k \in 1..n}, d \in GlyphDims}] :
            \A k \in 1..n : gl[k].value = GlyphValues[k]} :
        n \in 0..MaxGlyphs}

RECURSIVE SortedSeq(_)
SortedSeq(S) ==
    IF S = {} THEN <<>>
    ELSE LET m == CHOOSE x \in S : \A y \in S : x <= y
         IN  <<m>> \o SortedSeq(S \ {m})

\* every alphabet over the values of the first n glyphs
Alphabets(n) ==
    {[i \in DOMAIN SortedSeq(S) |-> GlyphValues[SortedSeq(S)[i]]] : S \in SUBSET (1..n)}

\* a buffer whose pixel at offset k holds k: a chunk then shows where it was read
IndexPixels(width, height) == [k \in 1..(width * height) |-> k - 1]

----------------------------------------------------------------------------
(* State *)

VARIABLES
    glyphs,     \* Font::new's chars argument
    alphabet,   \* Font::new's alphabet argument
    font,       \* what Font::new gave: a Font, a panic, or not called yet
    buffer,     \* pixels_to_chunks' arguments: pixels, width, height, chunk size
    chunks,     \* what pixels_to_chunks gave: the chunks, a panic, or not called yet
    call,       \* chunks_to_chars' arguments: chunks, convert, n_threads
    pc,         \* where the thread that called chunks_to_chars is
    spawned,    \* the i of the spawning loop: the workers 0..i-1 are spawned
    workers,    \* per spawned worker: its state, its slice, where the slice starts
    channel,    \* the messages sent on tx and not yet received
    char_vecs,  \* the messages received from rx, in the order of arrival
    result,     \* what chunks_to_chars gave: the chars, a panic, or not called yet
    reference,  \* what the same call with n_threads = 1 gave
    conversion, \* img_to_char_rows' arguments and the two buffers it derives
    stage,      \* where img_to_char_rows is: idle, start, luma, edge, done
    luma_chars, \* TwoPass: the chars of the luminance pass
    edge_detection_chars, \* TwoPass: the chars of the edge pass
    char_rows,  \* what img_to_char_rows gave: the rows, a panic, or not called yet
    xs,         \* a metric's first vector
    ys,         \* a metric's second vector
    score,      \* what the metric called on xs and ys gave, or not called yet
    image,      \* a LumaImage: width, height and the row-major pixels
    image_call, \* the LumaImage method called on image, with its arguments
    resized     \* the LumaImage that resize returned, or not called yet

fontVars == <<glyphs, alphabet, font>>

chunkVars == <<buffer, chunks>>

dispatchVars == <<call, pc, spawned, workers, channel, char_vecs, result, reference>>

conversionVars == <<conversion, stage, luma_chars, edge_detection_chars, char_rows>>

metricVars == <<xs, ys, score>>

imageVars == <<image, image_call, resized>>

vars == <<glyphs, alphabet, font, buffer, chunks, call, pc, spawned, workers, channel, char_vecs, result, reference, conversion, stage, luma_chars, edge_detection_chars, char_rows, xs, ys, score, image, image_call, resized>>

NotCalled == [status |-> "none"]

NoBuffer == [pixels |-> <<>>, width |-> 0, height |-> 0, chunk_width |-> 1, chunk_height |-> 1]

NoCall == [chunks |-> <<>>, convert |-> "none", n_threads |-> 0]

FontIdle == glyphs = <<>> /\ alphabet = <<>> /\ font = NotCalled

ChunksIdle == buffer = NoBuffer /\ chunks = NotCalled

DispatchReset ==
    /\ spawned = 0
    /\ workers = <<>>
    /\ channel = <<>>
    /\ char_vecs = <<>>
    /\ result = NotCalled

DispatchIdle ==
    /\ call = NoCall
    /\ pc = "idle"
    /\ reference = NotCalled
    /\ DispatchReset

NoConversion ==
    [width |-> 0, height |-> 0, out_width |-> 0, convert |-> "none", n_threads |-> 0,
     luma_pixels |-> <<>>, edge_detection_pixels |-> <<>>]

ConversionIdle ==
    /\ conversion = NoConversion
    /\ stage = "idle"
    /\ luma_chars = <<>>
    /\ edge_detection_chars = <<>>
    /\ char_rows = NotCalled

MetricsIdle == xs = <<>> /\ ys = <<>> /\ score = NotCalled

NoImage == [width |-> 0, height |-> 0, pixels |-> <<>>]

ImageIdle == image = NoImage /\ image_call = NotCalled /\ resized = NotCalled

----------------------------------------------------------------------------
(* Font construction *)

InitFont ==
    /\ glyphs \in GlyphLists
    /\ alphabet \in Alphabets(Len(glyphs))
    /\ font = NotCalled
    /\ ChunksIdle
    /\ DispatchIdle
    /\ ConversionIdle
    /\ MetricsIdle
    /\ ImageIdle

FontNew ==
    /\ font.status = "none"
    /\ font' = Font_new(glyphs, alphabet)
    /\ UNCHANGED <<glyphs, alphabet, chunkVars, dispatchVars, conversionVars, metricVars, imageVars>>

NextFont == FontNew

SpecFont == InitFont /\ [][NextFont]_vars

----------------------------------------------------------------------------
(* Partitioning a buffer into chunks *)

InitChunks ==
    /\ FontIdle
    /\ \E w \in 1..MaxDim, h \in 1..MaxDim, cw \in 1..MaxChunkDim, ch \in 1..MaxChunkDim :
          buffer = [pixels |-> IndexPixels(w, h), width |-> w, height |-> h,
                    chunk_width |-> cw, chunk_height |-> ch]
    /\ chunks = NotCalled
    /\ DispatchIdle
    /\ ConversionIdle
    /\ MetricsIdle
    /\ ImageIdle

PixelsToChunks ==
    /\ chunks.status = "none"
    /\ chunks' = pixels_to_chunks(buffer.pixels, buffer.width, buffer.height,
                                  buffer.chunk_width, buffer.chunk_height)
    /\ UNCHANGED <<fontVars, metricVars, imageVars, buffer, dispatchVars, conversionVars>>

NextChunks == PixelsToChunks

SpecChunks == InitChunks /\ [][NextChunks]_vars

----------------------------------------------------------------------------
(* Inputs of the dispatch model *)

\* a font of four 2 x 2 glyphs: blank, top row, left column, full
DispatchGlyphs ==
    <<Character(" ", <<0, 0, 0, 0>>, 2, 2), Character("-", <<1, 1, 0, 0>>, 2, 2),
      Character("|", <<1, 0, 1, 0>>, 2, 2), Character("#", <<1, 1, 1, 1>>, 2, 2)>>

DispatchAlphabet == <<" ", "-", "#">>

\* the chunks drawn: flat (every glyph scores 0 under dot), a top edge (two glyphs
\* tie under dot), and an overexposed one (its sum is past the intensity table)
ChunkPool == {<<0, 0, 0, 0>>, <<1, 1, 0, 0>>, <<2, 2, 2, 2>>}

ChunkLists == UNION {[1..n -> ChunkPool] : n \in 0..MaxChunks}

----------------------------------------------------------------------------
(* chunks_to_chars: the calling thread and its workers *)

InitDispatch ==
    /\ glyphs = DispatchGlyphs
    /\ alphabet = DispatchAlphabet
    /\ font = Font_new(DispatchGlyphs, DispatchAlphabet)
    /\ ChunksIdle
    /\ \E cl \in ChunkLists, cv \in Converters, n \in 1..MaxThreads :
          call = [chunks |-> cl, convert |-> cv, n_threads |-> n]
    /\ pc = "idle"
    /\ reference = NotCalled
    /\ DispatchReset
    /\ ConversionIdle
    /\ MetricsIdle
    /\ ImageIdle

\* the same call made with n_threads = 1 (lines 251-258), kept for comparison
SequentialCall ==
    /\ pc = "idle"
    /\ reference = NotCalled
    /\ reference' \in map_convert(call.convert, font, call.chunks)
    /\ pc' = "entry"
    /\ UNCHANGED <<fontVars, metricVars, imageVars, chunkVars, conversionVars, call, spawned, workers, channel, char_vecs, result>>

\* lines 224-229 and 251-258: with n_threads <= 1 the chunks are converted here
Enter ==
    /\ pc = "entry"
    /\ IF call.n_threads > 1
       THEN /\ pc' = "spawn"
            /\ UNCHANGED result
       ELSE /\ result' \in map_convert(call.convert, font, call.chunks)
            /\ pc' = "done"
    /\ UNCHANGED <<fontVars, metricVars, imageVars, chunkVars, conversionVars, call, spawned, workers, channel, char_vecs, reference>>

\* lines 230-242: one turn of the spawning loop; slicing chunks[start..end] with
\* start > end panics in the calling thread
Spawn ==
    /\ pc = "spawn"
    /\ spawned < call.n_threads
    /\ LET start == slice_start(spawned, Len(call.chunks), call.n_threads)
           end == slice_end(spawned, Len(call.chunks), call.n_threads)
       IN  IF start > end
           THEN /\ result' = [status |-> "panic"]
                /\ pc' = "done"
                /\ UNCHANGED <<spawned, workers>>
           ELSE /\ workers' = Append(workers,
                                     [state |-> "running",
                                      slice |-> SubSeq(call.chunks, start + 1, end),
                                      start |-> start])
                /\ spawned' = spawned + 1
                /\ UNCHANGED <<pc, result>>
    /\ UNCHANGED <<fontVars, metricVars, imageVars, chunkVars, conversionVars, call, channel, char_vecs, reference>>

\* line 243: drop(tx), then the calling thread starts to receive
DropTx ==
    /\ pc = "spawn"
    /\ spawned = call.n_threads
    /\ pc' = "collect"
    /\ UNCHANGED <<fontVars, metricVars, imageVars, chunkVars, conversionVars, call, spawned, workers, channel, char_vecs, result, reference>>

\* lines 234-241: worker i converts its slice and sends (i, chars); a panic in
\* convert, or a send to a receiver that is gone, ends the worker without a message
WorkerRun(i) ==
    /\ i \in DOMAIN workers
    /\ workers[i].state = "running"
    /\ \E outcome \in map_convert(call.convert, font, workers[i].slice) :
          IF outcome.status = "ok" /\ pc # "done"
          THEN /\ channel' = Append(channel,
                                    [index |-> i - 1,
                                     chars |-> outcome.chars,
                                     origin |-> [k \in DOMAIN workers[i].slice |->
                                                    workers[i].start + k]])
               /\ workers' = [workers EXCEPT ![i].state = "sent"]
          ELSE /\ workers' = [workers EXCEPT ![i].state = "panicked"]
               /\ UNCHANGED channel
    /\ UNCHANGED <<fontVars, metricVars, imageVars, chunkVars, conversionVars, call, pc, spawned, char_vecs, result, reference>>

\* line 245: rx.iter() yields the next message
Receive ==
    /\ pc = "collect"
    /\ channel # <<>>
    /\ char_vecs' = Append(char_vecs, Head(channel))
    /\ channel' = Tail(channel)
    /\ UNCHANGED <<fontVars, metricVars, imageVars, chunkVars, conversionVars, call, pc, spawned, workers, result, reference>>

\* the senders when the calling thread keeps its own: drop(tx) is left out
live_senders_tx_kept == 1 + Cardinality({i \in DOMAIN workers : workers[i].state = "running"})

\* the senders when only the calling thread's is counted
live_senders_own == IF pc = "spawn" THEN 1 ELSE 0

\* the senders of the channel that are not dropped yet: the calling thread's tx
\* until line 243, and the clone each running worker owns (line 231)
live_senders ==
    (IF pc = "spawn" THEN 1 ELSE 0)
        + Cardinality({i \in DOMAIN workers : workers[i].state = "running"})

\* lines 245-260: rx.iter() ends once the channel is empty and every sender is
\* dropped; the messages are sorted and concatenated
Return ==
    /\ pc = "collect"
    /\ channel = <<>>
    /\ live_senders = 0
    /\ LET joined == concat_messages(sort_messages(char_vecs))
       IN  result' = [status |-> "ok", chars |-> joined.chars, origin |-> joined.origin]
    /\ pc' = "done"
    /\ UNCHANGED <<fontVars, metricVars, imageVars, chunkVars, conversionVars, call, spawned, workers, channel, char_vecs, reference>>

NextDispatch ==
    \/ SequentialCall
    \/ Enter
    \/ Spawn
    \/ DropTx
    \/ \E i \in 1..MaxThreads : WorkerRun(i)
    \/ Receive
    \/ Return

SpecDispatch == InitDispatch /\ [][NextDispatch]_vars

\* the next step of the calling thread once the workers are spawned, told by
\* what it does to pc and channel: drop(tx) (DropTx), taking a message (Receive),
\* or leaving the loop when no sender is left (Return)
CallerStep ==
    \/ pc = "spawn" /\ spawned = call.n_threads /\ pc' = "collect" /\ channel' = channel
    \/ pc = "collect" /\ channel # <<>> /\ channel' = Tail(channel) /\ pc' = pc
    \/ pc = "collect" /\ channel = <<>> /\ live_senders = 0 /\ pc' = "done" /\ channel' = channel

\* the step of a spawned worker, told by what it does to workers: it ends,
\* with or without a message (WorkerRun)
WorkerStep ==
    \E i \in DOMAIN workers :
        /\ workers[i].state = "running"
        /\ \E state \in {"sent", "panicked"} : workers' = [workers EXCEPT ![i].state = state]

\* the calling thread keeps being scheduled, and every spawned worker
\* terminates: a step of the calling thread, or of some worker, that stays
\* possible is taken in the end (a worker takes one step only, so none is left
\* behind)
DispatchFairness ==
    /\ WF_<<pc, channel>>(CallerStep)
    /\ WF_workers(WorkerStep)

\* the calls whose converter gives one char for a chunk (the ties of dot_convert
\* change the chars in the messages, not the steps of the threads)
InitDispatchLive == InitDispatch /\ call.convert \in {"fast", "direction"}

SpecDispatchLive == InitDispatchLive /\ [][NextDispatch]_vars /\ DispatchFairness

----------------------------------------------------------------------------
(* Inputs of the conversion model *)

\* the cells of the edge buffer: flat (its direction is the blank glyph's) or a
\* top edge
EdgePool == {<<0, 0, 0, 0>>, <<1, 1, 0, 0>>}

ThreadCounts == {1, 2}

\* the buffer of out_width x out_height cells whose cell k holds cells[k]
assemble(cells, out_width, out_height, font_width, font_height) ==
    [p \in 1..(out_width * font_width * out_height * font_height) |->
        LET y == (p - 1) \div (out_width * font_width)
            x == (p - 1) % (out_width * font_width)
        IN  cells[(y \div font_height) * out_width + (x \div font_width) + 1]
                 [(y % font_height) * font_width + (x % font_width) + 1]]

OutHeight == out_height_of(conversion.width, conversion.height, conversion.out_width, font.width, font.height)

----------------------------------------------------------------------------
(* img_to_char_rows under ConversionAlgorithm::TwoPass *)

\* the image crate's resize, blur and filter are not modelled: the two buffers
\* are any buffers of the output geometry made of cells of the pools
InitTwoPass ==
    /\ glyphs = DispatchGlyphs
    /\ alphabet = DispatchAlphabet
    /\ font = Font_new(DispatchGlyphs, DispatchAlphabet)
    /\ ChunksIdle
    /\ call = NoCall
    /\ pc = "idle"
    /\ reference = NotCalled
    /\ DispatchReset
    /\ \E w \in 1..MaxImageDim, h \in 1..MaxImageDim, ow \in 1..MaxOutWidth,
          cv \in Converters, n \in ThreadCounts :
          LET oh == out_height_of(w, h, ow, font.width, font.height)
          IN  /\ ow * oh <= MaxCells
              /\ \E lc \in [1..(ow * oh) -> ChunkPool], ec \in [1..(ow * oh) -> EdgePool] :
                    conversion =
                        [width |-> w, height |-> h, out_width |-> ow,
                         convert |-> cv, n_threads |-> n,
                         luma_pixels |-> assemble(lc, ow, oh, font.width, font.height),
                         edge_detection_pixels |->
                             assemble(ec, ow, oh, font.width, font.height)]
    /\ stage = "start"
    /\ luma_chars = <<>>
    /\ edge_detection_chars = <<>>
    /\ char_rows = NotCalled
    /\ MetricsIdle
    /\ ImageIdle

\* lines 358-366: pixels_to_chars on the luminance buffer with the requested
\* converter (lines 263-274: pixels_to_chunks, then chunks_to_chars)
LumaPass ==
    /\ stage = "start"
    /\ buffer' = [pixels |-> conversion.luma_pixels,
                  width |-> conversion.out_width * font.width,
                  height |-> OutHeight * font.height,
                  chunk_width |-> font.width, chunk_height |-> font.height]
    /\ chunks' = pixels_to_chunks(buffer'.pixels, buffer'.width, buffer'.height,
                                  buffer'.chunk_width, buffer'.chunk_height)
    /\ IF chunks'.status = "ok"
       THEN /\ call' = [chunks |-> chunks'.chunks, convert |-> conversion.convert,
                        n_threads |-> conversion.n_threads]
            /\ pc' = "entry"
            /\ stage' = "luma"
            /\ UNCHANGED char_rows
       ELSE /\ char_rows' = [status |-> "panic"]
            /\ stage' = "done"
            /\ UNCHANGED <<call, pc>>
    /\ UNCHANGED <<fontVars, metricVars, imageVars, spawned, workers, channel, char_vecs, result, reference, conversion, luma_chars, edge_detection_chars>>

\* lines 368-376: once the luminance pass has returned, pixels_to_chars on the
\* edge buffer with direction_convert; a panic of the first pass ends the call
EdgePass ==
    /\ stage = "luma"
    /\ pc = "done"
    /\ IF result.status = "ok"
       THEN /\ luma_chars' = result.chars
            /\ buffer' = [buffer EXCEPT !.pixels = conversion.edge_detection_pixels]
            /\ chunks' = pixels_to_chunks(buffer'.pixels, buffer'.width, buffer'.height,
                                          buffer'.chunk_width, buffer'.chunk_height)
            /\ IF chunks'.status = "ok"
               THEN /\ call' = [chunks |-> chunks'.chunks, convert |-> "direction",
                                n_threads |-> conversion.n_threads]
                    /\ pc' = "entry"
                    /\ stage' = "edge"
                    /\ UNCHANGED char_rows
               ELSE /\ char_rows' = [status |-> "panic"]
                    /\ stage' = "done"
                    /\ UNCHANGED <<call, pc>>
            /\ spawned' = 0
            /\ workers' = <<>>
            /\ channel' = <<>>
            /\ char_vecs' = <<>>
            /\ result' = NotCalled
       ELSE /\ char_rows' = [status |-> "panic"]
            /\ stage' = "done"
            /\ UNCHANGED <<chunkVars, call, pc, spawned, workers, channel, char_vecs, result, luma_chars>>
    /\ UNCHANGED <<fontVars, metricVars, imageVars, reference, conversion, edge_detection_chars>>

\* lines 378-389: once the edge pass has returned, the two passes are merged cell
\* by cell and the chars are cut into rows
Merge ==
    /\ stage = "edge"
    /\ pc = "done"
    /\ IF result.status = "ok"
       THEN /\ edge_detection_chars' = result.chars
            /\ char_rows' = split_rows(merge_chars(luma_chars, result.chars),
                                       conversion.out_width, OutHeight)
       ELSE /\ char_rows' = [status |-> "panic"]
            /\ UNCHANGED edge_detection_chars
    /\ stage' = "done"
    /\ UNCHANGED <<fontVars, metricVars, imageVars, chunkVars, dispatchVars, conversion, luma_chars>>

NextTwoPass ==
    \/ LumaPass
    \/ Enter
    \/ Spawn
    \/ DropTx
    \/ \E i \in 1..MaxThreads : WorkerRun(i)
    \/ Receive
    \/ Return
    \/ EdgePass
    \/ Merge

SpecTwoPass == InitTwoPass /\ [][NextTwoPass]_vars

----------------------------------------------------------------------------
(* Inputs of the metrics model *)

VecValues == {-1, 0, 2}

\* the vectors of test_dot and test_jaccard (metrics_simd.rs lines 109-110, 117-118)
TestA == <<1, 2, 3, 4, 5, -1, 2, 0, 3, 1, 1>>

TestB == <<-1, 3, 4, 5, -1, 3, 4, 3, 5, 2, 1>>

\* the n elements of base read cyclically from its element shift on
Cyclic(base, shift, n) == [i \in 1..n |-> base[((i - 1 + shift) % Len(base)) + 1]]

ShortVectors == UNION {[1..n -> VecValues] : n \in 1..MaxShortLen}

\* every pair of short vectors, of equal length or not, and the pairs of equal
\* length up to MaxVecLen read from the test vectors
VectorPairs ==
    (ShortVectors \X ShortVectors)
    \cup {<<Cyclic(TestA, sa, n), Cyclic(TestB, sb, n)>> :
             sa \in 0..(Len(TestA) - 1), sb \in 0..(Len(TestB) - 1),
             n \in (MaxShortLen + 1)..MaxVecLen}

----------------------------------------------------------------------------
(* metrics.rs and metrics_simd.rs: one call of a metric *)

InitMetrics ==
    /\ FontIdle
    /\ ChunksIdle
    /\ DispatchIdle
    /\ ConversionIdle
    /\ ImageIdle
    /\ \E pair \in VectorPairs : xs = pair[1] /\ ys = pair[2]
    /\ score = NotCalled

DotScore ==
    /\ score = NotCalled
    /\ score' = [fn |-> "dot_score", status |-> "ok", value |-> dot_score(xs, ys)]
    /\ UNCHANGED <<fontVars, chunkVars, dispatchVars, conversionVars, imageVars, xs, ys>>

JaccardScore ==
    /\ score = NotCalled
    /\ score' = [fn |-> "jaccard_score", status |-> "ok", value |-> jaccard_score(xs, ys)]
    /\ UNCHANGED <<fontVars, chunkVars, dispatchVars, conversionVars, imageVars, xs, ys>>

MovementTowardClear ==
    /\ score = NotCalled
    /\ score' = [fn |-> "movement_toward_clear", status |-> "ok",
                 value |-> movement_toward_clear(xs, ys)]
    /\ UNCHANGED <<fontVars, chunkVars, dispatchVars, conversionVars, imageVars, xs, ys>>

SimdDotScore ==
    /\ score = NotCalled
    /\ \E outcome \in simd_dot_score(xs, ys) :
          score' = [fn |-> "simd_dot_score", outcome |-> outcome, status |-> outcome.status]
    /\ UNCHANGED <<fontVars, chunkVars, dispatchVars, conversionVars, imageVars, xs, ys>>

SimdJaccardScore ==
    /\ score = NotCalled
    /\ \E outcome \in simd_jaccard_score(xs, ys) :
          score' = [fn |-> "simd_jaccard_score", outcome |-> outcome, status |-> outcome.status]
    /\ UNCHANGED <<fontVars, chunkVars, dispatchVars, conversionVars, imageVars, xs, ys>>

NextMetrics ==
    \/ DotScore
    \/ JaccardScore
    \/ MovementTowardClear
    \/ SimdDotScore
    \/ SimdJaccardScore

SpecMetrics == InitMetrics /\ [][NextMetrics]_vars

----------------------------------------------------------------------------
(* direction_and_intensity_convert on one chunk *)

\* 2 x 2 glyphs: blank, top row, bottom row, left column, right column, full
SelectGlyphs ==
    <<Character(" ", <<0, 0, 0, 0>>, 2, 2), Character("-", <<1, 1, 0, 0>>, 2, 2),
      Character("_", <<0, 0, 1, 1>>, 2, 2), Character("|", <<1, 0, 1, 0>>, 2, 2),
      Character("!", <<0, 1, 0, 1>>, 2, 2), Character("#", <<1, 1, 1, 1>>, 2, 2)>>

\* the alphabets of 1..MaxSelectGlyphs distinct glyphs, in every order
SelectAlphabets ==
    {a \in UNION {[1..n -> {SelectGlyphs[k].value : k \in DOMAIN SelectGlyphs}] :
                     n \in 1..MaxSelectGlyphs} :
        \A j, k \in DOMAIN a : j # k => a[j] # a[k]}

\* the glyphs of SelectGlyphs named by an alphabet, in the alphabet's order
glyphs_of(a) ==
    [k \in DOMAIN a |-> CHOOSE c \in {SelectGlyphs[j] : j \in DOMAIN SelectGlyphs} :
                            c.value = a[k]]

SelectChunks == [1..4 -> {0, 1}]

InitSelect ==
    /\ \E a \in SelectAlphabets :
          /\ glyphs = glyphs_of(a)
          /\ alphabet = a
          /\ font = Font_new(glyphs_of(a), a)
    /\ font.status = "ok"
    /\ ChunksIdle
    /\ \E chunk \in SelectChunks :
          call = [chunks |-> <<chunk>>, convert |-> "direction-and-intensity", n_threads |-> 1]
    /\ pc = "idle"
    /\ reference = NotCalled
    /\ DispatchReset
    /\ ConversionIdle
    /\ MetricsIdle
    /\ ImageIdle

NextSelect ==
    \/ SequentialCall
    \/ Enter

SpecSelect == InitSelect /\ [][NextSelect]_vars

----------------------------------------------------------------------------
(* Inputs of the model of the three algorithms *)

\* the names given on the command line; "edge-augmented" is its default
\* (main.rs lines 59-60)
AlgorithmNames == {"base", "edge", "edge-augmented", "two-pass", "Base", ""}

\* the cells of the luminance buffer: flat, or one lit pixel (of a brightness
\* that is a multiple of 4, see edge_pixels)
ImgLumaPool == {<<0, 0, 0, 0>>, <<4, 0, 0, 0>>}

ImgThreadCounts == {1, 3}

----------------------------------------------------------------------------
(* main.rs and convert.rs: the algorithm is resolved, then img_to_char_rows runs *)

\* the buffers are any buffers of the output geometry made of cells of the pools:
\* the luminance of the resized image, the resized Laplacian of the image (Edge),
\* and the resized Laplacian of the blurred image (TwoPass)
InitImg ==
    /\ glyphs = DispatchGlyphs
    /\ alphabet = DispatchAlphabet
    /\ font = Font_new(DispatchGlyphs, DispatchAlphabet)
    /\ ChunksIdle
    /\ call = NoCall
    /\ pc = "idle"
    /\ reference = NotCalled
    /\ DispatchReset
    /\ \E w \in 1..MaxImageDim, h \in 1..MaxImageDim, ow \in 1..MaxOutWidth,
          cv \in Converters, n \in ImgThreadCounts, name \in AlgorithmNames :
          LET oh == out_height_of(w, h, ow, font.width, font.height)
          IN  /\ ow * oh <= MaxCells
              /\ \E lc \in [1..(ow * oh) -> ImgLumaPool], ec \in [1..(ow * oh) -> EdgePool],
                    bc \in [1..(ow * oh) -> EdgePool] :
                    conversion =
                        [width |-> w, height |-> h, out_width |-> ow,
                         convert |-> cv, n_threads |-> n,
                         algorithm_name |-> name, algorithm |-> "none",
                         luma_pixels |-> assemble(lc, ow, oh, font.width, font.height),
                         edge_detected |-> assemble(ec, ow, oh, font.width, font.height),
                         edge_detection_pixels |->
                             assemble(bc, ow, oh, font.width, font.height)]
    /\ stage = "cli"
    /\ luma_chars = <<>>
    /\ edge_detection_chars = <<>>
    /\ char_rows = NotCalled
    /\ MetricsIdle
    /\ ImageIdle

\* main.rs line 162: the name is resolved before any frame is converted; an
\* unsupported name ends the program
GetConversionAlgorithm ==
    /\ stage = "cli"
    /\ LET resolved == get_conversion_algorithm(conversion.algorithm_name)
       IN  IF resolved.status = "ok"
           THEN /\ conversion' = [conversion EXCEPT !.algorithm = resolved.algorithm]
                /\ stage' = IF resolved.algorithm = "TwoPass" THEN "start" ELSE "single"
           ELSE /\ conversion' = [conversion EXCEPT !.algorithm = "<panic>"]
                /\ stage' = "rejected"
    /\ UNCHANGED <<fontVars, metricVars, imageVars, chunkVars, dispatchVars, luma_chars, edge_detection_chars, char_rows>>

\* lines 301-340: Base and Edge build one buffer and call pixels_to_chars on it
\* with the requested converter
SinglePass ==
    /\ stage = "single"
    /\ buffer' = [pixels |-> IF conversion.algorithm = "Base"
                             THEN conversion.luma_pixels
                             ELSE edge_pixels(conversion.luma_pixels, conversion.edge_detected),
                  width |-> conversion.out_width * font.width,
                  height |-> OutHeight * font.height,
                  chunk_width |-> font.width, chunk_height |-> font.height]
    /\ chunks' = pixels_to_chunks(buffer'.pixels, buffer'.width, buffer'.height,
                                  buffer'.chunk_width, buffer'.chunk_height)
    /\ IF chunks'.status = "ok"
       THEN /\ call' = [chunks |-> chunks'.chunks, convert |-> conversion.convert,
                        n_threads |-> conversion.n_threads]
            /\ pc' = "entry"
            /\ stage' = "pass"
            /\ UNCHANGED char_rows
       ELSE /\ char_rows' = [status |-> "panic"]
            /\ stage' = "done"
            /\ UNCHANGED <<call, pc>>
    /\ UNCHANGED <<fontVars, metricVars, imageVars, spawned, workers, channel, char_vecs, result, reference, conversion, luma_chars, edge_detection_chars>>

\* lines 386-389: once pixels_to_chars has returned, the chars are cut into rows
SplitRows ==
    /\ stage = "pass"
    /\ pc = "done"
    /\ char_rows' = IF result.status = "ok"
                    THEN split_rows(result.chars, conversion.out_width, OutHeight)
                    ELSE [status |-> "panic"]
    /\ stage' = "done"
    /\ UNCHANGED <<fontVars, metricVars, imageVars, chunkVars, dispatchVars, conversion, luma_chars, edge_detection_chars>>

NextImg ==
    \/ GetConversionAlgorithm
    \/ SinglePass
    \/ SplitRows
    \/ NextTwoPass

SpecImg == InitImg /\ [][NextImg]_vars

----------------------------------------------------------------------------
(* Claims about chunks_to_chars, under SpecDispatch *)

\* C1: for every list of chunks of any length >= 0 and every n_threads > 1,
\* chunks_to_chars (noise_scale = 0) returns exactly the character sequence that
\* the call with n_threads = 1 returns.
C1_SameAsSequential ==
    (pc = "done" /\ call.n_threads > 1 /\ reference.status = "ok") =>
        /\ result.status = "ok"
        /\ result.chars = reference.chars

\* every worker has sent its message
AllSent == \A i \in DOMAIN workers : workers[i].state = "sent"

\* C2: whatever the order in which the workers send their messages, the results
\* are concatenated in increasing slice index: the output follows the order of
\* the input chunks, each char is one the converter gives for the chunk at its
\* place, and when every worker has sent, output position k is input chunk k.
C2_SliceOrder ==
    (pc = "done" /\ call.n_threads > 1 /\ result.status = "ok") =>
        /\ Len(result.chars) = Len(result.origin)
        /\ \A j, k \in DOMAIN result.origin :
               j < k => result.origin[j] < result.origin[k]
        /\ \A k \in DOMAIN result.chars :
               result.chars[k]
                   \in convert_chunk(call.convert, font, call.chunks[result.origin[k]])
        /\ AllSent => result.origin = [k \in 1..Len(call.chunks) |-> k]

\* a call whose workers all sent, a later slice arriving before an earlier one
C2_Witness ==
    /\ pc = "done"
    /\ result.status = "ok"
    /\ AllSent
    /\ Len(call.chunks) >= 2
    /\ \E j, k \in DOMAIN char_vecs :
           /\ j < k
           /\ char_vecs[j].index > char_vecs[k].index
           /\ char_vecs[j].chars # <<>>
           /\ char_vecs[k].chars # <<>>

\* C15: with noise_scale = 0 two calls with the same font and the same chunks
\* return the same chars (a tie for the greatest score is resolved by the font's
\* glyph order): here the call with n_threads = 1 and the same call made again.
C15_Deterministic ==
    (/\ pc = "done"
     /\ call.n_threads = 1
     /\ result.status = "ok"
     /\ reference.status = "ok") =>
        result.chars = reference.chars

\* C16: if a worker fails while converting a chunk of a call with n_threads > 1,
\* the call fails: it returns no character sequence.
C16_WorkerFailureIsFatal ==
    (/\ pc = "done"
     /\ call.n_threads > 1
     /\ \E i \in DOMAIN workers :
           /\ workers[i].state = "panicked"
           /\ [status |-> "panic"] \in map_convert(call.convert, font, workers[i].slice)) =>
        result.status # "ok"

----------------------------------------------------------------------------
(* Claims about img_to_char_rows, under SpecTwoPass *)

\* the pixels of the cell in row r, column c (from 0) of a buffer of W columns
CellOf(pixels, W, r, c) ==
    [p \in 1..(font.width * font.height) |->
        pixels[(r * font.height + ((p - 1) \div font.width)) * W
                   + c * font.width + ((p - 1) % font.width) + 1]]

\* C9: under TwoPass every cell's char is the edge pass's char (direction metric
\* on the edge buffer) unless that is the blank glyph, and then the luminance
\* pass's char (requested metric on the luminance buffer); the two passes have
\* one char per cell of the same out_height x out_width grid.
C9_TwoPassMerge ==
    (stage = "done" /\ char_rows.status = "ok") =>
        LET ow == conversion.out_width
            W == ow * font.width
        IN  /\ Len(char_rows.rows) = OutHeight
            /\ Len(luma_chars) = OutHeight * ow
            /\ Len(edge_detection_chars) = OutHeight * ow
            /\ \A r \in 1..OutHeight :
                   /\ Len(char_rows.rows[r]) = ow
                   /\ \A c \in 1..ow :
                          LET k == (r - 1) * ow + c
                              edge == edge_detection_chars[k]
                              luma == luma_chars[k]
                          IN  /\ edge \in direction_convert(font,
                                     CellOf(conversion.edge_detection_pixels, W, r - 1, c - 1))
                              /\ luma \in convert_chunk(conversion.convert, font,
                                     CellOf(conversion.luma_pixels, W, r - 1, c - 1))
                              /\ char_rows.rows[r][c]
                                     = IF edge = " " THEN luma ELSE edge

\* a grid with a cell that keeps its edge char and a cell whose edge char is
\* blank and that takes a luminance char that is not
C9_Witness ==
    /\ stage = "done"
    /\ char_rows.status = "ok"
    /\ \E j, k \in DOMAIN edge_detection_chars :
           /\ edge_detection_chars[j] # " "
           /\ luma_chars[j] # edge_detection_chars[j]
           /\ edge_detection_chars[k] = " "
           /\ luma_chars[k] # " "

----------------------------------------------------------------------------
(* Claims about pixels_to_chunks, under SpecChunks *)

\* the source offsets held by chunk k (the buffer's pixel at offset i holds i)
ChunkOffsets(k) == {chunks.chunks[k][j] : j \in DOMAIN chunks.chunks[k]}

\* C3: pixels_to_chunks returns exactly floor(H/fh) * floor(W/fw) chunks, no source
\* pixel appears in more than one chunk, and no pixel of the trailing W mod fw
\* columns or H mod fh rows appears in any chunk.
C3_ChunkPartition ==
    chunks.status # "none" =>
        /\ chunks.status = "ok"
        /\ Len(chunks.chunks) =
               (buffer.height \div buffer.chunk_height)
                   * (buffer.width \div buffer.chunk_width)
        /\ \A a, b \in DOMAIN chunks.chunks :
               a # b => ChunkOffsets(a) \cap ChunkOffsets(b) = {}
        /\ \A k \in DOMAIN chunks.chunks : \A offset \in ChunkOffsets(k) :
               /\ offset % buffer.width
                      < buffer.width - (buffer.width % buffer.chunk_width)
               /\ offset \div buffer.width
                      < buffer.height - (buffer.height % buffer.chunk_height)

\* a partition of a buffer whose width and height are no multiples of the chunk's
C3_Witness ==
    /\ chunks.status = "ok"
    /\ buffer.width % buffer.chunk_width # 0
    /\ buffer.height % buffer.chunk_height # 0
    /\ Len(chunks.chunks) >= 2

\* C4: the chunks come in row-major cell order, each in glyph-raster order: the
\* chunk at index r * floor(W/fw) + c has fw * fh elements and its element
\* y * fw + x is pixels[(r * fh + y) * W + c * fw + x].
C4_ChunkOrder ==
    chunks.status # "none" =>
        /\ chunks.status = "ok"
        /\ LET W == buffer.width
               fw == buffer.chunk_width
               fh == buffer.chunk_height
               cols == W \div fw
               rows == buffer.height \div fh
           IN  \A r \in 0..(rows - 1), c \in 0..(cols - 1) :
                   LET chunk == chunks.chunks[r * cols + c + 1]
                   IN  /\ Len(chunk) = fw * fh
                       /\ \A y \in 0..(fh - 1), x \in 0..(fw - 1) :
                              chunk[y * fw + x + 1]
                                  = buffer.pixels[(r * fh + y) * W + c * fw + x + 1]

\* two rows of two chunks of two rows, cut from a buffer with a trailing column
C4_Witness ==
    /\ chunks.status = "ok"
    /\ buffer.width \div buffer.chunk_width >= 2
    /\ buffer.height \div buffer.chunk_height >= 2
    /\ buffer.chunk_width >= 2
    /\ buffer.chunk_height >= 2
    /\ buffer.width % buffer.chunk_width # 0

----------------------------------------------------------------------------
(* Claims about Font::new, under SpecFont *)

\* the glyphs that remain after filtering to the alphabet
Remaining == filter_alphabet(glyphs, alphabet)

\* the largest raw intensity of the font's glyphs
MaxGlyphIntensity == SeqMax([k \in DOMAIN font.chars |-> SumSeq(font.chars[k].bitmap)])

\* the level a glyph's raw intensity is normalized to, as the code rounds it
NormalizedLevel(c) ==
    (SumSeq(c.bitmap) * font.width * font.height) \div MaxGlyphIntensity

\* C5: the intensity table of a built font has exactly W * H + 1 entries, the
\* normalized intensity of the glyph at index i is non-decreasing in i, and every
\* index resolves to a glyph of the font.
C5_IntensityTable ==
    font.status = "ok" =>
        /\ Len(font.intensity_chars) = font.width * font.height + 1
        /\ \A i, j \in DOMAIN font.intensity_chars :
               i <= j => NormalizedLevel(font.intensity_chars[i])
                             <= NormalizedLevel(font.intensity_chars[j])
        /\ \A i \in DOMAIN font.intensity_chars :
               \E k \in DOMAIN font.chars : font.chars[k] = font.intensity_chars[i]

\* a font of two glyphs whose table starts and ends with different glyphs
C5_Witness ==
    /\ font.status = "ok"
    /\ Len(font.chars) >= 2
    /\ font.width * font.height >= 2
    /\ font.intensity_chars[1] # font.intensity_chars[Len(font.intensity_chars)]

\* level i is at most the glyph's intensity scaled by W * H / max glyph intensity,
\* in exact arithmetic: i <= intensity * W * H / max
AtLeastLevel(c, i) ==
    SumSeq(c.bitmap) * font.width * font.height >= i * MaxGlyphIntensity

\* C6: every level i in 0..W*H maps to the glyph whose normalized intensity is the
\* smallest one >= i and, among the glyphs sharing that intensity, to the first in
\* the font's glyph order.
C6_NearestCeiling ==
    font.status = "ok" =>
        \A i \in 0..(font.width * font.height) :
            LET chosen == font.intensity_chars[i + 1]
            IN  /\ AtLeastLevel(chosen, i)
                /\ \A k \in DOMAIN font.chars :
                       AtLeastLevel(font.chars[k], i)
                           => SumSeq(chosen.bitmap) <= SumSeq(font.chars[k].bitmap)
                /\ \E k \in DOMAIN font.chars :
                       /\ font.chars[k] = chosen
                       /\ \A j \in 1..(k - 1) :
                              SumSeq(font.chars[j].bitmap) # SumSeq(chosen.bitmap)

\* a font where two glyphs of different bitmaps share the normalized intensity
\* that a level maps to
C6_Witness ==
    /\ font.status = "ok"
    /\ \E j, k \in DOMAIN font.chars :
           /\ j < k
           /\ font.chars[j].bitmap # font.chars[k].bitmap
           /\ SumSeq(font.chars[j].bitmap) = SumSeq(font.chars[k].bitmap)
           /\ \E i \in DOMAIN font.intensity_chars :
                  font.intensity_chars[i] = font.chars[j]

\* the remaining glyphs all have the same width and the same height
UniformSize(chars) ==
    \A j, k \in DOMAIN chars :
        chars[j].width = chars[k].width /\ chars[j].height = chars[k].height

\* C7: Font::new fails whenever the remaining glyphs do not all have the same
\* width and height, and succeeds with font.width and font.height equal to the
\* common size when they do.
C7_UniformOrFail ==
    (font.status # "none" /\ Remaining # <<>>) =>
        IF UniformSize(Remaining)
        THEN /\ font.status = "ok"
             /\ font.width = Remaining[1].width
             /\ font.height = Remaining[1].height
        ELSE font.status = "panic"

\* C8: when no glyph remains after filtering, Font::new fails with an error that
\* reports the offending dimension range.
C8_EmptyReportsRange ==
    (font.status # "none" /\ Remaining = <<>>) =>
        /\ font.status = "panic"
        /\ font.range # <<>>

AllZero(bitmap) == \A i \in DOMAIN bitmap : bitmap[i] = 0

\* C10: the direction of a bitmap whose pixels are all zero is exactly (0, 0), and
\* no division is performed.
C10_ZeroDirection ==
    font.status = "ok" =>
        \A k \in DOMAIN font.chars :
            AllZero(font.chars[k].bitmap) =>
                /\ font.directions[k].x = 0
                /\ font.directions[k].y = 0
                /\ font.directions[k].den = 1
                /\ ~font.directions[k].divided

\* a built font with a blank glyph beside a glyph whose direction is not (0, 0)
C10_Witness ==
    /\ font.status = "ok"
    /\ \E k \in DOMAIN font.chars : AllZero(font.chars[k].bitmap)
    /\ \E k \in DOMAIN font.chars : font.directions[k].divided /\ font.directions[k].x # 0

----------------------------------------------------------------------------
(* Claims about the metrics, under SpecMetrics *)

\* the sum of the products of the first n pairs, one pair at a time
RECURSIVE PairSum(_, _, _)
PairSum(a, b, n) == IF n = 0 THEN 0 ELSE PairSum(a, b, n - 1) + a[n] * b[n]

\* C11: on two vectors of equal length dot_score is the sum of xs[i] * ys[i]
\* over all positions, is the same with the arguments exchanged, and is 55 on
\* the vectors of test_dot.
C11_DotScore ==
    (score.status = "ok" /\ score.fn = "dot_score" /\ Len(xs) = Len(ys)) =>
        /\ score.value = PairSum(xs, ys, Len(xs))
        /\ score.value = dot_score(ys, xs)
        /\ (xs = TestA /\ ys = TestB) => score.value = 55

\* dot_score has been called on the vectors of test_dot
C11_Witness ==
    /\ score.status = "ok"
    /\ score.fn = "dot_score"
    /\ xs = TestA
    /\ ys = TestB
    /\ score.value = 55

\* the sum of the lesser (greater) of the first n pairs, one pair at a time
RECURSIVE MinSum(_, _, _)
MinSum(a, b, n) ==
    IF n = 0 THEN 0 ELSE MinSum(a, b, n - 1) + (IF a[n] <= b[n] THEN a[n] ELSE b[n])

RECURSIVE MaxSum(_, _, _)
MaxSum(a, b, n) ==
    IF n = 0 THEN 0 ELSE MaxSum(a, b, n - 1) + (IF a[n] >= b[n] THEN a[n] ELSE b[n])

\* C12: on two vectors of equal length whose sum of maxima is not zero,
\* jaccard_score is (sum of min(xs[i], ys[i])) / (sum of max(xs[i], ys[i])), and
\* it is 13/36 on the vectors of test_jaccard.
C12_JaccardScore ==
    (/\ score.status = "ok"
     /\ score.fn = "jaccard_score"
     /\ Len(xs) = Len(ys)
     /\ MaxSum(xs, ys, Len(xs)) # 0) =>
        /\ score.value.num = MinSum(xs, ys, Len(xs))
        /\ score.value.den = MaxSum(xs, ys, Len(xs))
        /\ (xs = TestA /\ ys = TestB) => (score.value.num * 36 = 13 * score.value.den)

\* jaccard_score has been called on the vectors of test_jaccard
C12_Witness ==
    /\ score.status = "ok"
    /\ score.fn = "jaccard_score"
    /\ xs = TestA
    /\ ys = TestB
    /\ score.value = [num |-> 13, den |-> 36]

\* C13: on two vectors of equal length >= 1 the vectorized dot_score and
\* jaccard_score read only indices below the length and return what the scalar
\* dot_score and jaccard_score return.
C13_SimdInBounds ==
    (/\ score # NotCalled
     /\ score.fn \in {"simd_dot_score", "simd_jaccard_score"}
     /\ Len(xs) = Len(ys)) =>
        /\ score.status = "ok"
        /\ score.outcome.read_end <= Len(xs)
        /\ score.fn = "simd_dot_score" => score.outcome.value = dot_score(xs, ys)
        /\ score.fn = "simd_jaccard_score" => score.outcome.value = jaccard_score(xs, ys)

\* C18: movement_toward_clear is minus the sum of xs[i] over the positions
\* where ys[i] > 0 (and of 0 over the others), on vectors of equal length.
C18_MovementTowardClear ==
    (score.status = "ok" /\ score.fn = "movement_toward_clear" /\ Len(xs) = Len(ys)) =>
        score.value = -SumSeq([i \in DOMAIN xs |-> IF ys[i] > 0 THEN xs[i] ELSE 0])

----------------------------------------------------------------------------
(* Claims about direction_and_intensity_convert, under SpecSelect *)

\* the squared distance from the chunk's direction to glyph k's, as a fraction
DirectionGap(k) ==
    direction_distance(chunk_direction(call.chunks[1], font.width, font.height),
                       font.directions[k])

\* the squared difference between the chunk's intensity and glyph k's
IntensityGap(k) ==
    (SumSeq(call.chunks[1]) - font.intensities[k])
        * (SumSeq(call.chunks[1]) - font.intensities[k])

\* C19: of two glyphs with the same intensity difference to the chunk, the one
\* whose direction is strictly closer to the chunk's gets the strictly higher
\* score and is preferred: the farther one is not the char returned.
C19_CloserPreferred ==
    (pc = "done" /\ result.status = "ok" /\ call.convert = "direction-and-intensity") =>
        \A j, k \in DOMAIN font.chars :
            (/\ IntensityGap(j) = IntensityGap(k)
             /\ DirectionGap(j)[1] * DirectionGap(k)[2]
                    < DirectionGap(k)[1] * DirectionGap(j)[2]) =>
                /\ intensity_score_below(intensity_score(font, call.chunks[1], k),
                                         intensity_score(font, call.chunks[1], j))
                /\ result.chars[1] # font.chars[k].value

----------------------------------------------------------------------------
(* Claims about the conversion algorithms, under SpecImg *)

\* C14: for each algorithm img_to_char_rows returns a grid of exactly out_height
\* rows of exactly out_width chars each, out_height being the rounded
\* image_height * (out_width / image_width) * (font_width / font_height).
C14_RectangularGrid ==
    stage = "done" =>
        /\ char_rows.status = "ok"
        /\ Len(char_rows.rows) = OutHeight
        /\ \A r \in DOMAIN char_rows.rows : Len(char_rows.rows[r]) = conversion.out_width

\* C17: get_conversion_algorithm resolves exactly the four names "base", "edge",
\* "edge-augmented" and "two-pass", each to its variant, and fails on any other.
C17_FourVariants ==
    stage # "cli" =>
        (conversion.algorithm_name \in {"base", "edge", "edge-augmented", "two-pass"}
            <=> conversion.algorithm \in {"Base", "Edge", "EdgeAugmented", "TwoPass"})

\* C20: under Edge every cell's char is the direction metric's char for that
\* cell of the edge-detected blurred image, whatever converter was requested.
C20_EdgeDirectionOnly ==
    (stage = "done" /\ conversion.algorithm = "Edge" /\ char_rows.status = "ok") =>
        \A r \in DOMAIN char_rows.rows : \A c \in DOMAIN char_rows.rows[r] :
            char_rows.rows[r][c]
                \in direction_convert(font,
                        CellOf(conversion.edge_detection_pixels,
                               conversion.out_width * font.width, r - 1, c - 1))


----------------------------------------------------------------------------
(* image.rs: LumaImage, convolve_horizontal, convolve_vertical, resize *)

\* most columns, and most rows, of a LumaImage
MaxLumaDim == 3

\* most pixels of a LumaImage
MaxLumaPixels == 4

\* longest convolution kernel
MaxKernelLen == 3

\* widest and tallest size asked of resize
MaxTargetDim == 3

\* pixels are row-major; x and y count from 0 as in the source
get_pixel(img, x, y) == img.pixels[img.width * y + x + 1]

set_pixel(img, x, y, pixel) == [img EXCEPT !.pixels[img.width * y + x + 1] = pixel]

\* the total of one output pixel of convolve_horizontal, read from img as it is now
horizontal_total(img, kernel, x, y) ==
    LET kernel_col_offset == (Len(kernel) - 1) \div 2
        tap(k) ==
            LET dx == x + (k - 1) - kernel_col_offset
            IN  IF dx >= 0 /\ dx < img.width THEN get_pixel(img, dx, y) * kernel[k] ELSE 0
    IN  SumSeq([k \in 1..Len(kernel) |-> tap(k)])

\* the loops over y and x from pixel number pos on: every total is written back
\* into the buffer the next totals are read from
RECURSIVE convolve_horizontal_from(_, _, _)
convolve_horizontal_from(img, kernel, pos) ==
    IF pos >= img.width * img.height THEN img
    ELSE LET y == pos \div img.width
             x == pos % img.width
         IN  convolve_horizontal_from(set_pixel(img, x, y, horizontal_total(img, kernel, x, y)), kernel, pos + 1)

convolve_horizontal(img, kernel) == convolve_horizontal_from(img, kernel, 0)

\* the total of one output pixel of convolve_vertical, read from img as it is now
vertical_total(img, kernel, x, y) ==
    LET kernel_row_offset == (Len(kernel) - 1) \div 2
        tap(k) ==
            LET dy == y + (k - 1) - kernel_row_offset
            IN  IF dy >= 0 /\ dy < img.height THEN get_pixel(img, x, dy) * kernel[k] ELSE 0
    IN  SumSeq([k \in 1..Len(kernel) |-> tap(k)])

RECURSIVE convolve_vertical_from(_, _, _)
convolve_vertical_from(img, kernel, pos) ==
    IF pos >= img.width * img.height THEN img
    ELSE LET y == pos \div img.width
             x == pos % img.width
         IN  convolve_vertical_from(set_pixel(img, x, y, vertical_total(img, kernel, x, y)), kernel, pos + 1)

convolve_vertical(img, kernel) == convolve_vertical_from(img, kernel, 0)

\* a variant of lerp_f32 that starts from b
lerp_from_b(a, t_num, t_den, b) == t_den * b + t_num * (a - b)

\* a + t * (b - a) with t = t_num / t_den, as the numerator over t_den
lerp_f32(a, t_num, t_den, b) == t_den * a + t_num * (b - a)

\* one pixel of resize, as the numerator over width * height:
\* in_x = x * self.width / width, ux its floor, tx its fractional part
resize_pixel(img, width, height, x, y) ==
    LET ux == (x * img.width) \div width
        uy == (y * img.height) \div height
        tx_num == (x * img.width) % width
        ty_num == (y * img.height) % height
        tl == get_pixel(img, ux, uy)
        tr == get_pixel(img, Min2(ux + 1, img.width - 1), uy)
        bl == get_pixel(img, ux, Min2(uy + 1, img.height - 1))
        br == get_pixel(img, Min2(ux + 1, img.width - 1), Min2(uy + 1, img.height - 1))
    IN  lerp_f32(lerp_f32(tl, tx_num, width, tr), ty_num, height, lerp_f32(bl, tx_num, width, br))

\* the image resize returns; a pixel's value is pixels[k] / scale
resize(img, width, height) ==
    [width |-> width, height |-> height, scale |-> width * height,
     pixels |-> [k \in 1..(width * height) |->
                    resize_pixel(img, width, height, (k - 1) % width, (k - 1) \div width)]]

LumaValues == {0, 1, 2}

KernelValues == {0, 1, 2}

LumaSizes == {size \in (1..MaxLumaDim) \X (1..MaxLumaDim) : size[1] * size[2] <= MaxLumaPixels}

LumaImages ==
    UNION {{[width |-> size[1], height |-> size[2], pixels |-> p] : p \in [1..(size[1] * size[2]) -> LumaValues]} :
           size \in LumaSizes}

Kernels == UNION {[1..n -> KernelValues] : n \in 1..MaxKernelLen}

InitImage ==
    /\ image \in LumaImages
    /\ image_call = NotCalled
    /\ resized = NotCalled
    /\ FontIdle
    /\ ChunksIdle
    /\ DispatchIdle
    /\ ConversionIdle
    /\ MetricsIdle

ConvolveHorizontal ==
    /\ image_call = NotCalled
    /\ \E kernel \in Kernels :
        /\ image_call' = [status |-> "done", method |-> "convolve_horizontal", kernel |-> kernel, before |-> image]
        /\ image' = convolve_horizontal(image, kernel)
    /\ UNCHANGED <<fontVars, metricVars, chunkVars, dispatchVars, conversionVars, resized>>

ConvolveVertical ==
    /\ image_call = NotCalled
    /\ \E kernel \in Kernels :
        /\ image_call' = [status |-> "done", method |-> "convolve_vertical", kernel |-> kernel, before |-> image]
        /\ image' = convolve_vertical(image, kernel)
    /\ UNCHANGED <<fontVars, metricVars, chunkVars, dispatchVars, conversionVars, resized>>

Resize ==
    /\ image_call = NotCalled
    /\ \E width \in 1..MaxTargetDim, height \in 1..MaxTargetDim :
        /\ image_call' = [status |-> "done", method |-> "resize", width |-> width, height |-> height, before |-> image]
        /\ resized' = resize(image, width, height)
    /\ UNCHANGED <<fontVars, metricVars, chunkVars, dispatchVars, conversionVars, image>>

NextImage == ConvolveHorizontal \/ ConvolveVertical \/ Resize

SpecImage == InitImage /\ [][NextImage]_vars

Convolved == image_call # NotCalled /\ image_call.method \in {"convolve_horizontal", "convolve_vertical"}

\* the sum the kernel gives at (x, y) when every tap is read from the buffer src
TapsOf(src, method, kernel, x, y) ==
    LET offset == (Len(kernel) - 1) \div 2
        InRange(k) ==
            IF method = "convolve_horizontal"
            THEN x + (k - 1) - offset >= 0 /\ x + (k - 1) - offset < src.width
            ELSE y + (k - 1) - offset >= 0 /\ y + (k - 1) - offset < src.height
        Source(k) ==
            IF method = "convolve_horizontal"
            THEN get_pixel(src, x + (k - 1) - offset, y)
            ELSE get_pixel(src, x, y + (k - 1) - offset)
    IN  SumSeq([k \in 1..Len(kernel) |-> IF InRange(k) THEN kernel[k] * Source(k) ELSE 0])

\* C21: after convolve_horizontal or convolve_vertical every pixel is the sum,
\* over the kernel taps whose source coordinate lies inside the buffer, of the
\* tap times the pixel at that coordinate in the buffer as it was before the
\* call, and the width and the height are unchanged
C21_ConvolveFromOriginal ==
    Convolved =>
        /\ image.width = image_call.before.width
        /\ image.height = image_call.before.height
        /\ \A x \in 0..(image.width - 1), y \in 0..(image.height - 1) :
            get_pixel(image, x, y) = TapsOf(image_call.before, image_call.method, image_call.kernel, x, y)

SameSize ==
    /\ image_call # NotCalled
    /\ image_call.method = "resize"
    /\ image_call.width = image.width
    /\ image_call.height = image.height

\* C29: resize to the buffer's own width and height returns an image of that
\* size whose every pixel equals the source pixel at the same coordinate, and
\* the source buffer is left as it was
C29_ResizeIdentity ==
    SameSize =>
        /\ resized.width = image.width
        /\ resized.height = image.height
        /\ Len(resized.pixels) = Len(image.pixels)
        /\ \A k \in DOMAIN image.pixels : resized.pixels[k] = resized.scale * image.pixels[k]
        /\ image = image_call.before

C29_Witness ==
    /\ SameSize
    /\ image.width >= 2
    /\ image.height >= 2
    /\ \E j, k \in DOMAIN image.pixels : image.pixels[j] # image.pixels[k]


----------------------------------------------------------------------------
(* Claims about the glyph directions, under SpecFont *)

\* the sum of f over the set S
RECURSIVE SumFn(_, _)
SumFn(f, S) ==
    IF S = {} THEN 0
    ELSE LET e == CHOOSE e \in S : TRUE
         IN  f[e] + SumFn(f, S \ {e})

\* the summed response of a 3x3 kernel on grid: one term for every position
\* (r, c) whose own pixel is non-zero and every tap (i, j) whose source
\* (r + i - 2, c + j - 2) lies inside the grid
MaskedSum(grid, kernel) ==
    LET Terms == {t \in (1..Len(grid)) \X (1..Len(grid[1])) \X (1..3) \X (1..3) :
                    /\ grid[t[1]][t[2]] # 0
                    /\ t[1] + t[3] - 2 \in 1..Len(grid)
                    /\ t[2] + t[4] - 2 \in 1..Len(grid[1])}
    IN  SumFn([t \in Terms |-> kernel[t[3]][t[4]] * grid[t[1] + t[3] - 2][t[2] + t[4] - 2]], Terms)

GridOf(k) == [r \in 1..font.height |-> [c \in 1..font.width |-> font.chars[k].bitmap[(r - 1) * font.width + c]]]

\* C24: a glyph's direction is (x-sum / total, y-sum / total), the three sums
\* being the masked 3x3 convolutions with the x, y and total kernels: a response
\* only where the input pixel is non-zero, taps outside the bitmap omitted; it is
\* (0, 0) when the total is zero
C24_MaskedDirection ==
    font.status = "ok" =>
        \A k \in DOMAIN font.chars :
            LET total == MaskedSum(GridOf(k), << <<0, 0, 0>>, <<0, 1, 1>>, <<1, 1, 1>> >>)
                x_sum == MaskedSum(GridOf(k), << <<0, 0, 0>>, <<0, 0, 1>>, <<-1, 0, 1>> >>)
                y_sum == MaskedSum(GridOf(k), << <<0, 0, 0>>, <<0, 0, 0>>, <<1, 1, 1>> >>)
            IN  IF total = 0
                THEN font.directions[k].x = 0 /\ font.directions[k].y = 0 /\ ~font.directions[k].divided
                ELSE /\ font.directions[k].divided
                     /\ font.directions[k].x = x_sum
                     /\ font.directions[k].y = y_sum
                     /\ font.directions[k].den = total

\* a built font with a 2x2 glyph that has a zero pixel whose kernel taps reach
\* lit pixels (the mask matters) and a direction with non-zero x and y
C24_Witness ==
    /\ font.status = "ok"
    /\ font.width = 2
    /\ font.height = 2
    /\ \E k \in DOMAIN font.chars :
        /\ font.chars[k].bitmap[1] = 0
        /\ font.chars[k].bitmap[2] = 1
        /\ font.chars[k].bitmap[3] = 1
        /\ font.directions[k].divided
        /\ font.directions[k].x # 0
        /\ font.directions[k].y # 0


----------------------------------------------------------------------------
(* Claims about an undefined jaccard score, under SpecMetrics *)

ZeroVector(v) == \A i \in DOMAIN v : v[i] = 0

ZeroJaccardCall ==
    /\ score # NotCalled
    /\ score.fn = "jaccard_score"
    /\ Len(xs) = Len(ys)
    /\ ZeroVector(xs)
    /\ ZeroVector(ys)

\* C25: jaccard_score has no guard against a zero denominator: on two all-zero
\* vectors of equal length it returns the NaN of 0 / 0 to its caller, without an
\* error and without a defined number put in its place
C25_ZeroUnionIsNaN ==
    ZeroJaccardCall =>
        /\ score.status = "ok"
        /\ score.value.num = 0
        /\ score.value.den = 0
        /\ f32_div_class(score.value) = "NaN"

\* jaccard_score has returned from a call on two all-zero vectors of length 2
C25_Witness == ZeroJaccardCall /\ Len(xs) = 2


----------------------------------------------------------------------------
(* direction_and_intensity_convert on one chunk, one glyph of every small size *)

\* most columns, and most rows, of the glyph
MaxBoundDim == 3

\* most pixels of the glyph
MaxBoundPixels == 6

BoundSizes == {size \in (1..MaxBoundDim) \X (1..MaxBoundDim) : size[1] * size[2] <= MaxBoundPixels}

\* a font of one glyph of any size and any 0/1 bitmap that Font::new accepts,
\* and any 0/1 chunk of that size
InitBound ==
    /\ \E size \in BoundSizes :
          /\ \E bitmap \in [1..(size[1] * size[2]) -> {0, 1}] :
                /\ glyphs = <<Character("#", bitmap, size[1], size[2])>>
                /\ alphabet = <<"#">>
                /\ font = Font_new(<<Character("#", bitmap, size[1], size[2])>>, <<"#">>)
          /\ \E chunk \in [1..(size[1] * size[2]) -> {0, 1}] :
                call = [chunks |-> <<chunk>>, convert |-> "direction-and-intensity", n_threads |-> 1]
    /\ font.status = "ok"
    /\ ChunksIdle
    /\ pc = "idle"
    /\ reference = NotCalled
    /\ DispatchReset
    /\ ConversionIdle
    /\ MetricsIdle
    /\ ImageIdle

NextBound ==
    \/ SequentialCall
    \/ Enter

SpecBound == InitBound /\ [][NextBound]_vars

\* C23: for a font with bitmap values in [0, 1] and a chunk with values in
\* [0, 1], the Euclidean distance between chunk_direction(chunk) and any glyph
\* direction is at most max_direction = 4 * W * H, so max_direction - distance
\* is never negative
C23_DistanceBounded ==
    (pc = "done" /\ result.status = "ok" /\ call.convert = "direction-and-intensity") =>
        \A k \in DOMAIN font.chars :
            DirectionGap(k)[1] <= max_direction(font) * max_direction(font) * DirectionGap(k)[2]

\* the converter has returned for a glyph and a chunk whose directions are more
\* than 2 apart
C23_Witness ==
    /\ pc = "done"
    /\ result.status = "ok"
    /\ call.convert = "direction-and-intensity"
    /\ \E k \in DOMAIN font.chars : DirectionGap(k)[1] > 4 * DirectionGap(k)[2]


----------------------------------------------------------------------------
(* convert.rs: fast_convert with noise, in f32 arithmetic *)

\* rng.gen::<f32>() is a multiple of 2^-24 in [0, 1): an f32 has 24 significant bits
RandUnit == 16777216

\* the spacing of the f32 values around v, v and the spacing in units of 2^-24
RECURSIVE f32_spacing(_, _)
f32_spacing(v, u) == IF v \div u < RandUnit THEN u ELSE f32_spacing(v, 2 * u)

\* v, in units of 2^-24, rounded to the nearest f32, ties to the even significand
f32_round(v) ==
    LET u == f32_spacing(v, 1)
        q == v \div u
        rem == v % u
    IN  IF 2 * rem > u \/ (2 * rem = u /\ q % 2 = 1) THEN (q + 1) * u ELSE q * u

\* line 74: (intensity + noise) as usize, for noise = rand / 2^24 (noise_scale 1);
\* a sum that is not positive casts to 0
fast_index(chunk, rand) ==
    LET intensity == SumSeq(chunk)
    IN  IF intensity < 0 THEN 0
        ELSE f32_round(intensity * RandUnit + rand) \div RandUnit

\* lines 71-76 with noise: the char at the index, or the indexing panic
fast_convert_noise(font_, chunk, rand) ==
    LET index == fast_index(chunk, rand)
    IN  IF index + 1 > Len(font_.intensity_chars)
        THEN [status |-> "panic", index |-> index]
        ELSE [status |-> "ok", index |-> index, chars |-> <<font_.intensity_chars[index + 1].value>>]

\* the values rng.gen::<f32>() is drawn from here, as multiples of 2^-24:
\* the least, the middle and the greatest ones
RandSamples == {0, 1, RandUnit \div 2, RandUnit - 2, RandUnit - 1}

NoiseChunks == [1..4 -> {-1, 0, 1}]

InitNoise ==
    /\ \E a \in SelectAlphabets :
          /\ glyphs = glyphs_of(a)
          /\ alphabet = a
          /\ font = Font_new(glyphs_of(a), a)
    /\ font.status = "ok"
    /\ ChunksIdle
    /\ \E chunk \in NoiseChunks, rand \in RandSamples :
          call = [chunks |-> <<chunk>>, convert |-> "fast", n_threads |-> 1, rand |-> rand]
    /\ pc = "idle"
    /\ reference = NotCalled
    /\ DispatchReset
    /\ ConversionIdle
    /\ MetricsIdle
    /\ ImageIdle

FastConvert ==
    /\ pc = "idle"
    /\ result' = fast_convert_noise(font, call.chunks[1], call.rand)
    /\ pc' = "done"
    /\ UNCHANGED <<fontVars, metricVars, imageVars, chunkVars, conversionVars, call, spawned, workers, channel, char_vecs, reference>>

NextNoise == FastConvert

SpecNoise == InitNoise /\ [][NextNoise]_vars

InUnitRange(chunk) == \A i \in DOMAIN chunk : chunk[i] \in {0, 1}

\* C28: the index fast_convert computes is floor(sum + noise); for chunk values
\* in [0, 1] and noise in [0, 1) it lies in [0, W * H], inside the table of
\* W * H + 1 entries, so the lookup succeeds; a negative sum gives index 0
C28_IndexInTable ==
    (pc = "done" /\ call.convert = "fast") =>
        /\ InUnitRange(call.chunks[1]) =>
            /\ result.status = "ok"
            /\ result.index \in 0..(font.width * font.height)
            /\ result.index + 1 <= Len(font.intensity_chars)
        /\ SumSeq(call.chunks[1]) < 0 => result.index = 0


----------------------------------------------------------------------------
(* Claims about the workers and the channel, under SpecDispatch *)

\* the messages of worker i, in the channel or already received
MessagesOf(i) ==
    Cardinality({k \in DOMAIN channel : channel[k].index = i - 1})
        + Cardinality({k \in DOMAIN char_vecs : char_vecs[k].index = i - 1})

Returned == pc = "done" /\ result.status = "ok" /\ call.n_threads > 1

C26_ReceiveLoopEnds ==
    (pc = "spawn" /\ spawned = call.n_threads) ~> (pc = "done" /\ result.status = "ok")

\* the call has returned after a receive loop in which a worker had ended
\* without a message
C26_Witness ==
    /\ Returned
    /\ \E i \in DOMAIN workers : workers[i].state = "panicked"
    /\ \E i \in DOMAIN workers : workers[i].state = "sent"


----------------------------------------------------------------------------
(* chunks_to_chars under each of the four converters, on fonts with and
   without a blank glyph *)

AllConverters == Converters \cup {"direction-and-intensity"}

\* a flat dark chunk, a corner-dark chunk and a flat lit chunk
ConvertChunks == {<<0, 0, 0, 0>>, <<0, 1, 1, 1>>, <<1, 1, 1, 1>>}

ConvertChunkLists == [1..1 -> ConvertChunks]

InitConvert ==
    /\ \E a \in SelectAlphabets :
          /\ glyphs = glyphs_of(a)
          /\ alphabet = a
          /\ font = Font_new(glyphs_of(a), a)
    /\ font.status = "ok"
    /\ ChunksIdle
    /\ \E cl \in ConvertChunkLists, cv \in AllConverters, n \in {1, 2} :
          call = [chunks |-> cl, convert |-> cv, n_threads |-> n]
    /\ pc = "idle"
    /\ reference = NotCalled
    /\ DispatchReset
    /\ ConversionIdle
    /\ MetricsIdle
    /\ ImageIdle

NextConvert == NextDispatch

SpecConvert == InitConvert /\ [][NextConvert]_vars

\* convert.rs lines 454 and 487: font.char_map.get(&chr).unwrap()
char_map_lookup(font_, chr) ==
    IF chr \in DOMAIN font_.char_map
    THEN [status |-> "ok", bitmap |-> font_.char_map[chr].bitmap]
    ELSE [status |-> "panic"]

\* chr is the value of a glyph of the font and a key of its char_map, so that
\* the lookup of the renderers succeeds
InFont(chr) ==
    /\ \E k \in DOMAIN font.chars : font.chars[k].value = chr
    /\ chr \in DOMAIN font.char_map
    /\ char_map_lookup(font, chr).status = "ok"

\* C27: every char a converter returns, hence every char in the output of
\* chunks_to_chars (sequential or threaded, received or in flight) and of
\* img_to_char_rows, is the value of a glyph of the font and a key of
\* font.char_map, so the char_map lookups of the bitmap renderers do not fail
C27_CharsFromFont ==
    /\ result.status = "ok" => \A k \in DOMAIN result.chars : InFont(result.chars[k])
    /\ reference.status = "ok" => \A k \in DOMAIN reference.chars : InFont(reference.chars[k])
    /\ \A m \in DOMAIN channel : \A k \in DOMAIN channel[m].chars : InFont(channel[m].chars[k])
    /\ \A m \in DOMAIN char_vecs : \A k \in DOMAIN char_vecs[m].chars : InFont(char_vecs[m].chars[k])
    /\ \A k \in DOMAIN luma_chars : InFont(luma_chars[k])
    /\ \A k \in DOMAIN edge_detection_chars : InFont(edge_detection_chars[k])
    /\ char_rows.status = "ok" =>
          \A r \in DOMAIN char_rows.rows : \A k \in DOMAIN char_rows.rows[r] : InFont(char_rows.rows[r][k])

\* a threaded call of direction_and_intensity_convert has returned the char of
\* a dark chunk, under a font that has no blank glyph
C27_Witness ==
    /\ pc = "done"
    /\ result.status = "ok"
    /\ call.n_threads = 2
    /\ call.convert = "direction-and-intensity"
    /\ call.chunks = << <<0, 0, 0, 0>> >>
    /\ Len(result.chars) = 1
    /\ " " \notin DOMAIN font.char_map

====
